---- MODULE Spec2Model ----
(***************************************************************************)
(* A model of nathan-osman/nutclient.                                      *)
(*                                                                         *)
(* Part 1 (Spec): the Client of client.go.  One background goroutine       *)
(* (run -> lifecycle -> loop -> runCommand) owns the socket; callers use   *)
(* Get and Close, which talk to it over the two unbuffered channels        *)
(* requestChan and responseChan and the cancellation context ctx.  Every   *)
(* blocking point of the code is a value of a program counter; a channel   *)
(* operation is a rendezvous of a sender and a receiver that are both at   *)
(* the operation.                                                          *)
(***************************************************************************)
EXTENDS Integers, Sequences, FiniteSets, TLC

\* ------------------------------------------------------------------ bounds
\* Successful dials after which every further dial fails.
MaxConns == 2
\* Get calls per calling goroutine.
MaxGets == 1
\* Close calls per closing goroutine.
MaxCloses == 1

\* The goroutines that call Get, and those that call Close.
Getters == {"g1", "g2"}
Closers == {"k1", "k2"}

\* ------------------------------------------------------------- the client
VARIABLES
    ctxDone,      \* c.ctx is canceled (c.cancel() was called)
    runPc,        \* where the goroutine of run() is
    keepAlive,    \* cfg.KeepAliveInterval != 0
    tickPending,  \* a tick is waiting in keepAliveTicker.C
    conn,         \* the connection of this lifecycle iteration (0: none yet)
    openSocks,    \* connections whose socket has not been closed
    failedConns,  \* connections on which a command has returned an error
    cmd,          \* the command runCommand is executing
    cmdOut,       \* what the command's I/O returned (runGet / runCmd)
    executing,    \* commands between the start and the return of runCommand
    watcher,      \* the goroutine runCommand starts: "none", "running", "done"
    canceled,     \* runCommand's local variable canceled
    resp,         \* the cmdResponse run is sending on responseChan
    loopErr,      \* the error loop returned to lifecycle
    getPc,        \* where each Get caller is
    getCalls,     \* Get calls made by each caller
    result,       \* what each caller's last Get returned
    gotFrom,      \* the request whose response each caller's last Get received
    takenIn,      \* where run received each caller's request: "loop", "backoff"
    closePc,      \* where each Close caller is
    closeCalls,   \* Close calls made by each closer
    closeGot,     \* what each closer's last Close read from responseChan
    closeReturned,\* some Close call has returned
    nConnected,   \* invocations of cfg.ConnectedFn
    nDisconnected,\* invocations of cfg.DisconnectedFn
    nTaken,       \* requests run has received (lines 105 and 167)
    nServed,      \* requests the serving loop has received (line 105)
    nExecReq      \* runCommand invocations for a caller's request

getVars == << getPc, getCalls, result, gotFrom, takenIn >>
closeVars == << closePc, closeCalls, closeGot, closeReturned >>
connVars == << conn, openSocks, failedConns >>
cmdVars == << cmd, cmdOut, executing, watcher, canceled >>
cbVars == << nConnected, nDisconnected >>
countVars == << nTaken, nServed, nExecReq >>

clientVars == << ctxDone, runPc, keepAlive, tickPending, resp, loopErr,
                 connVars, cmdVars, getVars, closeVars, cbVars, countVars >>

\* ---------------------------------------------- the connection's codec
\* Part 2 (SpecParse): one call of a nutConn method on given inputs.
VARIABLES
    pArgs,        \* the argument string v of the call
    pWriteOk,     \* whether n.rw.Write succeeds
    pIn,          \* the lines the server sends in answer to the call
    pLines,       \* the lines n.scanner (bufio.ScanLines) still yields
    pReadErr,     \* n.scanner.Err() once pLines is exhausted ("nil": EOF)
    pWritten,     \* the bytes written to the socket
    pOp,          \* the method that was called ("none": not yet)
    pOut          \* what it returned

parseVars == << pArgs, pWriteOk, pIn, pLines, pReadErr, pWritten, pOp, pOut >>

\* ------------------------------------------------------------ the monitor
\* Part 3 (SpecMon): the Monitor of monitor/config.go processing the status
\* values it polls.
VARIABLES
    mOnBattery,     \* m.onBattery
    mPolled,        \* the values processResponse has been called with
    mHasLostFn,     \* cfg.PowerLostFn != nil
    mHasRestoredFn, \* cfg.PowerRestoredFn != nil
    mCustomEval,    \* cfg.EvaluateStatusFn != nil
    mLost,          \* invocations of cfg.PowerLostFn
    mRestored,      \* invocations of cfg.PowerRestoredFn
    monPc,          \* where the goroutine of Monitor.run is ("off": no monitor)
    mConnected,     \* the variable connected of Monitor.run
    mTimer,         \* nextChan of Monitor.run: "nil", or "armed" (time.After)
    connClosed      \* m.connChan has been closed

monRunVars == << monPc, mConnected, mTimer, connClosed >>

monVars == << mOnBattery, mPolled, mHasLostFn, mHasRestoredFn, mCustomEval,
              mLost, mRestored, monRunVars >>

vars == << clientVars, parseVars, monVars >>

NoCmd == [kind |-> "none", for |-> "none", conn |-> 0, ioCut |-> FALSE]
NoResp == [for |-> "none", vnil |-> TRUE, err |-> "nil"]

\* What the I/O of one command can return: a value, a server ERR reply, a
\* malformed reply, a write/read/EOF failure.
Outcomes == {"nil", "ServerErr", "ProtoErr", "IOErr"}

ClientInit ==
    /\ ctxDone = FALSE
    /\ runPc = "Dial"
    /\ keepAlive \in BOOLEAN
    /\ tickPending = FALSE
    /\ conn = 0
    /\ openSocks = {}
    /\ failedConns = {}
    /\ cmd = NoCmd
    /\ cmdOut = "nil"
    /\ executing = 0
    /\ watcher = "none"
    /\ canceled = FALSE
    /\ resp = NoResp
    /\ loopErr = "nil"
    /\ getPc = [g \in Getters |-> "idle"]
    /\ getCalls = [g \in Getters |-> 0]
    /\ result = [g \in Getters |-> "none"]
    /\ gotFrom = [g \in Getters |-> "none"]
    /\ takenIn = [g \in Getters |-> "none"]
    /\ closePc = [k \in Closers |-> "idle"]
    /\ closeCalls = [k \in Closers |-> 0]
    /\ closeGot = [k \in Closers |-> "none"]
    /\ closeReturned = FALSE
    /\ nConnected = 0
    /\ nDisconnected = 0
    /\ nTaken = 0
    /\ nServed = 0
    /\ nExecReq = 0

\* ------------------------------------------------ runCommand (client.go)
\* runCommand is entered: the watcher goroutine is started (line 61) and the
\* command's I/O begins (line 72).
StartCommand(kind, g) ==
    /\ cmd' = [kind |-> kind, for |-> g, conn |-> conn, ioCut |-> FALSE]
    /\ cmdOut' = "nil"
    /\ executing' = executing + 1
    /\ watcher' = "running"
    /\ canceled' = FALSE
    /\ runPc' = "CmdIO"

\* The I/O of the command (n.runGet, n.runCmd) returns; on a socket that has
\* been closed it returns an error.  The deferred close(abortChan) runs.
CmdIO(out) ==
    /\ runPc = "CmdIO"
    /\ out \in (IF cmd.conn \in openSocks THEN Outcomes ELSE {"IOErr"})
    /\ cmdOut' = out
    /\ runPc' = "CmdDefer"
    /\ UNCHANGED << parseVars, monVars >>
    /\ UNCHANGED << ctxDone, keepAlive, tickPending, resp, loopErr, connVars,
                    cmd, executing, watcher, canceled, getVars, closeVars,
                    cbVars, countVars >>

\* A watcher that sets canceled on the shutdown without closing the socket.
WatcherCancelNoClose ==
    /\ watcher = "running"
    /\ ctxDone
    /\ canceled' = TRUE
    /\ watcher' = "done"
    /\ UNCHANGED << parseVars, monVars >>
    /\ UNCHANGED << ctxDone, runPc, keepAlive, tickPending, resp, loopErr,
                    connVars, cmd, cmdOut, executing, getVars, closeVars,
                    cbVars, countVars >>

\* The watcher's select takes <-c.ctx.Done(): canceled = true, conn.Close().
\* cmd.ioCut records that the socket was closed under the command's I/O.
WatcherCancel ==
    /\ watcher = "running"
    /\ ctxDone
    /\ canceled' = TRUE
    /\ openSocks' = openSocks \ {cmd.conn}
    /\ watcher' = "done"
    /\ cmd' = [cmd EXCEPT !.ioCut = (runPc = "CmdIO")]
    /\ UNCHANGED << parseVars, monVars >>
    /\ UNCHANGED << ctxDone, runPc, keepAlive, tickPending, resp, loopErr,
                    conn, failedConns, cmdOut, executing, getVars,
                    closeVars, cbVars, countVars >>

\* The watcher's select takes <-abortChan, which runCommand closes on return.
WatcherAbort ==
    /\ watcher = "running"
    /\ runPc = "CmdDefer"
    /\ watcher' = "done"
    /\ UNCHANGED << parseVars, monVars >>
    /\ UNCHANGED << ctxDone, runPc, keepAlive, tickPending, resp, loopErr,
                    connVars, cmd, cmdOut, executing, canceled, getVars,
                    closeVars, cbVars, countVars >>

\* The error runCommand returns: context.Canceled when the watcher saw the
\* shutdown, else the command's own.
CmdErr == IF canceled THEN "Canceled" ELSE cmdOut

\* runCommand returning without the deferred read of errChan: the watcher
\* may still be running.
CmdReturnNoWait ==
    /\ runPc = "CmdDefer"
    /\ executing' = executing - 1
    /\ watcher' = IF watcher = "done" THEN "none" ELSE watcher
    /\ failedConns' = IF CmdErr \in {"ProtoErr", "IOErr"}
                      THEN failedConns \cup {cmd.conn} ELSE failedConns
    /\ IF cmd.kind = "keepalive"
       THEN /\ resp' = resp
            /\ IF CmdErr # "nil"
               THEN runPc' = "LoopRet" /\ loopErr' = CmdErr
               ELSE runPc' = "Select" /\ loopErr' = loopErr
       ELSE /\ resp' = [for |-> cmd.for, vnil |-> FALSE, err |-> CmdErr]
            /\ runPc' = "SendResp"
            /\ loopErr' = loopErr
    /\ UNCHANGED << parseVars, monVars >>
    /\ UNCHANGED << ctxDone, keepAlive, tickPending, conn, openSocks, cmd,
                    cmdOut, canceled, getVars, closeVars, cbVars, countVars >>

\* A loop that sends the result of every command, the keep-alive's too, on
\* responseChan.
CmdReturnSendsKeepAlive ==
    /\ runPc = "CmdDefer"
    /\ watcher = "done"
    /\ executing' = executing - 1
    /\ watcher' = "none"
    /\ failedConns' = IF CmdErr \in {"ProtoErr", "IOErr"}
                      THEN failedConns \cup {cmd.conn} ELSE failedConns
    /\ resp' = [for |-> cmd.for, vnil |-> FALSE, err |-> CmdErr]
    /\ runPc' = "SendResp"
    /\ loopErr' = loopErr
    /\ UNCHANGED << parseVars, monVars >>
    /\ UNCHANGED << ctxDone, keepAlive, tickPending, conn, openSocks, cmd,
                    cmdOut, canceled, getVars, closeVars, cbVars, countVars >>

\* The deferred function has read errChan (the watcher is done); runCommand
\* returns to loop.  A keep-alive's error ends the loop (lines 101-104); a
\* request's result is sent on responseChan (line 107).
CmdReturn ==
    /\ runPc = "CmdDefer"
    /\ watcher = "done"
    /\ executing' = executing - 1
    /\ watcher' = "none"
    /\ failedConns' = IF CmdErr \in {"ProtoErr", "IOErr"}
                      THEN failedConns \cup {cmd.conn} ELSE failedConns
    /\ IF cmd.kind = "keepalive"
       THEN /\ resp' = resp
            /\ IF CmdErr # "nil"
               THEN runPc' = "LoopRet" /\ loopErr' = CmdErr
               ELSE runPc' = "Select" /\ loopErr' = loopErr
       ELSE /\ resp' = [for |-> cmd.for, vnil |-> FALSE, err |-> CmdErr]
            /\ runPc' = "SendResp"
            /\ loopErr' = loopErr
    /\ UNCHANGED << parseVars, monVars >>
    /\ UNCHANGED << ctxDone, keepAlive, tickPending, conn, openSocks, cmd,
                    cmdOut, canceled, getVars, closeVars, cbVars, countVars >>

\* ------------------------------------------------------ loop (client.go)
\* A tick arrives in keepAliveTicker.C (capacity 1) while the ticker runs.
Tick ==
    /\ keepAlive
    /\ runPc \in {"Select", "CmdIO", "CmdDefer", "SendResp"}
    /\ ~tickPending
    /\ tickPending' = TRUE
    /\ UNCHANGED << parseVars, monVars >>
    /\ UNCHANGED << ctxDone, runPc, resp, loopErr, keepAlive, connVars,
                    cmdVars, getVars, closeVars, cbVars, countVars >>

\* A keep-alive that does not wait for the loop's select: the tick starts
\* its command while a request's command is executing.
SelectKeepAliveUnserialized ==
    /\ runPc \in {"Select", "CmdIO"}
    /\ tickPending
    /\ tickPending' = FALSE
    /\ IF runPc = "Select"
       THEN StartCommand("keepalive", "none")
       ELSE /\ executing' = executing + 1
            /\ UNCHANGED << runPc, cmd, cmdOut, watcher, canceled >>
    /\ UNCHANGED << parseVars, monVars >>
    /\ UNCHANGED << ctxDone, keepAlive, resp, loopErr, connVars, getVars,
                    closeVars, cbVars, countVars >>

\* select: case <-keepAliveChan (line 100)
SelectKeepAlive ==
    /\ runPc = "Select"
    /\ tickPending
    /\ tickPending' = FALSE
    /\ StartCommand("keepalive", "none")
    /\ UNCHANGED << parseVars, monVars >>
    /\ UNCHANGED << ctxDone, keepAlive, resp, loopErr, connVars, getVars,
                    closeVars, cbVars, countVars >>

\* select: case r := <-c.requestChan (line 105), the rendezvous with the
\* send of Get (line 198)
SelectRequest(g) ==
    /\ runPc = "Select"
    /\ getPc[g] = "send"
    /\ getPc' = [getPc EXCEPT ![g] = "recv"]
    /\ takenIn' = [takenIn EXCEPT ![g] = "loop"]
    /\ nTaken' = nTaken + 1
    /\ nServed' = nServed + 1
    /\ nExecReq' = nExecReq + 1
    /\ StartCommand("get", g)
    /\ UNCHANGED << parseVars, monVars >>
    /\ UNCHANGED << ctxDone, keepAlive, tickPending, resp, loopErr, connVars,
                    getCalls, result, gotFrom, closeVars, cbVars >>

\* select: case <-c.ctx.Done() (line 117): conn.Close(), return Canceled
SelectDone ==
    /\ runPc = "Select"
    /\ ctxDone
    /\ openSocks' = openSocks \ {conn}
    /\ loopErr' = "Canceled"
    /\ runPc' = "LoopRet"
    /\ UNCHANGED << parseVars, monVars >>
    /\ UNCHANGED << ctxDone, keepAlive, tickPending, resp, conn, failedConns,
                    cmdVars, getVars, closeVars, cbVars, countVars >>

\* A receive on responseChan takes r: Get returns r.v.(string), r.err (line
\* 203), a type assertion that panics on a nil r.v; Close returns (line 210).
Deliver(rcv, r) ==
    IF rcv \in Getters
    THEN /\ getPc[rcv] = "recv"
         /\ getPc' = [getPc EXCEPT ![rcv] = IF r.vnil THEN "panic" ELSE "idle"]
         /\ result' = [result EXCEPT ![rcv] = IF r.vnil THEN "panic" ELSE r.err]
         /\ gotFrom' = [gotFrom EXCEPT ![rcv] = r.for]
         /\ UNCHANGED << getCalls, takenIn, closeVars >>
    ELSE /\ closePc[rcv] = "wait"
         /\ closePc' = [closePc EXCEPT ![rcv] = "idle"]
         /\ closeGot' = [closeGot EXCEPT ![rcv] = r.for]
         /\ closeReturned' = TRUE
         /\ UNCHANGED << closeCalls, getVars >>

\* c.responseChan <- cmdResponse{v, err} (line 107) meets a receiver; then
\* the loop returns err, or resets the ticker (lines 114-116) and selects
\* again.  Ticker.Reset leaves a tick that is already in keepAliveTicker.C
\* there when the program is built with the timer channels of Go before
\* 1.23 (the README names Go 1.18 as the minimum), and discards it with
\* those of Go 1.23: both outcomes are possible.
SendResp(rcv) ==
    /\ runPc = "SendResp"
    /\ Deliver(rcv, resp)
    /\ IF resp.err # "nil"
       THEN runPc' = "LoopRet" /\ loopErr' = resp.err
                              /\ tickPending' = tickPending
       ELSE runPc' = "Select" /\ loopErr' = loopErr
                             /\ tickPending' \in {tickPending, FALSE}
    /\ resp' = NoResp
    /\ UNCHANGED << parseVars, monVars >>
    /\ UNCHANGED << ctxDone, keepAlive, connVars, cmdVars, cbVars, countVars >>

\* ------------------------------------------- lifecycle, run (client.go)
\* dialer.DialContext is called (line 131); with ctx already canceled it
\* fails at once.
DialStart ==
    /\ runPc = "Dial"
    /\ runPc' = IF ctxDone THEN "Backoff" ELSE "Dialing"
    /\ UNCHANGED << parseVars, monVars >>
    /\ UNCHANGED << ctxDone, keepAlive, tickPending, resp, loopErr, connVars,
                    cmdVars, getVars, closeVars, cbVars, countVars >>

\* DialContext returns: a connection, or an error (never context.Canceled
\* itself: net wraps it in an *OpError), on which lifecycle returns it and
\* run waits in its select (line 165).
DialEnd(ok) ==
    /\ runPc = "Dialing"
    /\ ok => conn < MaxConns
    /\ IF ok
       THEN /\ conn' = conn + 1
            /\ openSocks' = openSocks \cup {conn + 1}
            /\ runPc' = "ConnectedCb"
       ELSE /\ runPc' = "Backoff"
            /\ UNCHANGED << conn, openSocks >>
    /\ UNCHANGED << parseVars, monVars >>
    /\ UNCHANGED << ctxDone, keepAlive, tickPending, resp, loopErr,
                    failedConns, cmdVars, getVars, closeVars, cbVars,
                    countVars >>

\* lifecycle without the call of ConnectedFn.
ConnectedCbSilent ==
    /\ runPc = "ConnectedCb"
    /\ tickPending' = FALSE
    /\ runPc' = "Select"
    /\ UNCHANGED << parseVars, monVars >>
    /\ UNCHANGED << ctxDone, keepAlive, resp, loopErr, connVars, cmdVars,
                    getVars, closeVars, cbVars, countVars >>

\* c.cfg.ConnectedFn() (lines 137-139), newNutConn, loop is entered with a
\* new ticker.
ConnectedCb ==
    /\ runPc = "ConnectedCb"
    /\ nConnected' = nConnected + 1
    /\ tickPending' = FALSE
    /\ runPc' = "Select"
    /\ UNCHANGED << parseVars, monVars >>
    /\ UNCHANGED << ctxDone, keepAlive, resp, loopErr, connVars, cmdVars,
                    getVars, closeVars, nDisconnected, countVars >>

\* lifecycle calling DisconnectedFn whatever the error of loop.
LoopReturnAlwaysNotifies ==
    /\ runPc = "LoopRet"
    /\ nDisconnected' = nDisconnected + 1
    /\ runPc' = IF loopErr = "Canceled" THEN "Exited" ELSE "Backoff"
    /\ tickPending' = FALSE
    /\ UNCHANGED << parseVars, monVars >>
    /\ UNCHANGED << ctxDone, keepAlive, resp, loopErr, connVars, cmdVars,
                    getVars, closeVars, nConnected, countVars >>

\* run returning on every error of lifecycle, not on context.Canceled only.
LoopReturnExitsOnAnyError ==
    /\ runPc = "LoopRet"
    /\ nDisconnected' = IF loopErr # "Canceled"
                        THEN nDisconnected + 1 ELSE nDisconnected
    /\ runPc' = "Exited"
    /\ tickPending' = FALSE
    /\ UNCHANGED << parseVars, monVars >>
    /\ UNCHANGED << ctxDone, keepAlive, resp, loopErr, connVars, cmdVars,
                    getVars, closeVars, nConnected, countVars >>

\* lifecycle without the call of DisconnectedFn.
LoopReturnNeverNotifies ==
    /\ runPc = "LoopRet"
    /\ runPc' = IF loopErr = "Canceled" THEN "Exited" ELSE "Backoff"
    /\ tickPending' = FALSE
    /\ UNCHANGED << parseVars, monVars >>
    /\ UNCHANGED << ctxDone, keepAlive, resp, loopErr, connVars, cmdVars,
                    getVars, closeVars, cbVars, countVars >>

\* loop has returned err (line 145): DisconnectedFn unless err is
\* context.Canceled (lines 146-148); run returns on Canceled, closing
\* responseChan (lines 158, 160), else waits in its select.
LoopReturn ==
    /\ runPc = "LoopRet"
    /\ nDisconnected' = IF loopErr # "Canceled"
                        THEN nDisconnected + 1 ELSE nDisconnected
    /\ runPc' = IF loopErr = "Canceled" THEN "Exited" ELSE "Backoff"
    /\ tickPending' = FALSE
    /\ UNCHANGED << parseVars, monVars >>
    /\ UNCHANGED << ctxDone, keepAlive, resp, loopErr, connVars, cmdVars,
                    getVars, closeVars, nConnected, countVars >>

\* run's select: case <-time.After(reconnect interval) (line 166)
BackoffTimer ==
    /\ runPc = "Backoff"
    /\ runPc' = "Dial"
    /\ UNCHANGED << parseVars, monVars >>
    /\ UNCHANGED << ctxDone, keepAlive, tickPending, resp, loopErr, connVars,
                    cmdVars, getVars, closeVars, cbVars, countVars >>

\* run's select: case <-c.requestChan (line 167)
BackoffRequest(g) ==
    /\ runPc = "Backoff"
    /\ getPc[g] = "send"
    /\ getPc' = [getPc EXCEPT ![g] = "recv"]
    /\ takenIn' = [takenIn EXCEPT ![g] = "backoff"]
    /\ resp' = [for |-> g, vnil |-> TRUE, err |-> "NotConnected"]
    /\ runPc' = "BackoffResp"
    /\ nTaken' = nTaken + 1
    /\ UNCHANGED << parseVars, monVars >>
    /\ UNCHANGED << ctxDone, keepAlive, tickPending, loopErr, connVars,
                    cmdVars, getCalls, result, gotFrom, closeVars, cbVars,
                    nServed, nExecReq >>

\* c.responseChan <- cmdResponse{err: errNotConnected} (line 168) meets a
\* receiver; the for loop of run then calls lifecycle again.
BackoffResp(rcv) ==
    /\ runPc = "BackoffResp"
    /\ Deliver(rcv, resp)
    /\ resp' = NoResp
    /\ runPc' = "Dial"
    /\ UNCHANGED << parseVars, monVars >>
    /\ UNCHANGED << ctxDone, keepAlive, tickPending, loopErr, connVars,
                    cmdVars, cbVars, countVars >>

\* run's select: case <-c.ctx.Done() (line 169): return, close(responseChan)
BackoffDone ==
    /\ runPc = "Backoff"
    /\ ctxDone
    /\ runPc' = "Exited"
    /\ UNCHANGED << parseVars, monVars >>
    /\ UNCHANGED << ctxDone, keepAlive, tickPending, resp, loopErr, connVars,
                    cmdVars, getVars, closeVars, cbVars, countVars >>

\* --------------------------------------------- Get, Close (client.go)
\* Get is called: the caller blocks in c.requestChan <- cmdRequest{...}.
GetCall(g) ==
    /\ getPc[g] = "idle"
    /\ getCalls[g] < MaxGets
    /\ getPc' = [getPc EXCEPT ![g] = "send"]
    /\ getCalls' = [getCalls EXCEPT ![g] = @ + 1]
    /\ result' = [result EXCEPT ![g] = "none"]
    /\ gotFrom' = [gotFrom EXCEPT ![g] = "none"]
    /\ takenIn' = [takenIn EXCEPT ![g] = "none"]
    /\ UNCHANGED << parseVars, monVars >>
    /\ UNCHANGED << ctxDone, runPc, keepAlive, tickPending, resp, loopErr,
                    connVars, cmdVars, closeVars, cbVars, countVars >>

\* A receive on the closed responseChan yields the zero cmdResponse.
ZeroResp == [for |-> "closed", vnil |-> TRUE, err |-> "nil"]

\* r := <-c.responseChan in Get (line 202) after run has closed the channel.
GetRecvClosed(g) ==
    /\ runPc = "Exited"
    /\ Deliver(g, ZeroResp)
    /\ g \in Getters
    /\ UNCHANGED << parseVars, monVars >>
    /\ UNCHANGED << ctxDone, runPc, keepAlive, tickPending, resp, loopErr,
                    connVars, cmdVars, cbVars, countVars >>

\* Close is called: c.cancel() (line 209), then the caller blocks in
\* <-c.responseChan.
CloseCall(k) ==
    /\ closePc[k] = "idle"
    /\ closeCalls[k] < MaxCloses
    /\ ctxDone' = TRUE
    /\ closePc' = [closePc EXCEPT ![k] = "wait"]
    /\ closeCalls' = [closeCalls EXCEPT ![k] = @ + 1]
    /\ closeGot' = [closeGot EXCEPT ![k] = "none"]
    /\ UNCHANGED << parseVars, monVars >>
    /\ UNCHANGED << runPc, keepAlive, tickPending, resp, loopErr, connVars,
                    cmdVars, getVars, closeReturned, cbVars, countVars >>

\* <-c.responseChan in Close (line 210) after run has closed the channel.
CloseRecvClosed(k) ==
    /\ runPc = "Exited"
    /\ k \in Closers
    /\ Deliver(k, ZeroResp)
    /\ UNCHANGED << parseVars, monVars >>
    /\ UNCHANGED << ctxDone, runPc, keepAlive, tickPending, resp, loopErr,
                    connVars, cmdVars, cbVars, countVars >>

ClientNext ==
    \/ \E out \in Outcomes : CmdIO(out)
    \/ WatcherCancel
    \/ WatcherAbort
    \/ CmdReturn
    \/ Tick
    \/ SelectKeepAlive
    \/ \E g \in Getters : SelectRequest(g)
    \/ SelectDone
    \/ \E rcv \in Getters \cup Closers : SendResp(rcv)
    \/ DialStart
    \/ \E ok \in BOOLEAN : DialEnd(ok)
    \/ ConnectedCb
    \/ LoopReturn
    \/ BackoffTimer
    \/ \E g \in Getters : BackoffRequest(g)
    \/ \E rcv \in Getters \cup Closers : BackoffResp(rcv)
    \/ BackoffDone
    \/ \E g \in Getters : GetCall(g)
    \/ \E g \in Getters : GetRecvClosed(g)
    \/ \E k \in Closers : CloseCall(k)
    \/ \E k \in Closers : CloseRecvClosed(k)


\* ---------------------------------------- tokenizer (unnamed/part_002)
\* Strings are sequences of one-character strings.
Q == "\""

\* strings.ToLower on the letters the inputs use.
LowerChar(c) ==
    CASE c = "A" -> "a"
      [] c = "B" -> "b"
      [] c = "D" -> "d"
      [] c = "E" -> "e"
      [] c = "G" -> "g"
      [] c = "I" -> "i"
      [] c = "K" -> "k"
      [] c = "L" -> "l"
      [] c = "N" -> "n"
      [] c = "O" -> "o"
      [] c = "R" -> "r"
      [] c = "S" -> "s"
      [] c = "T" -> "t"
      [] c = "V" -> "v"
      [] OTHER -> c

ToLower(w) == [i \in 1..Len(w) |-> LowerChar(w[i])]

\* strings.EqualFold
EqualFold(a, b) == ToLower(a) = ToLower(b)

\* The keywords runList and listReader.parse compare with.
KwBegin == << "b", "e", "g", "i", "n" >>
KwList == << "l", "i", "s", "t" >>
KwEnd == << "e", "n", "d" >>

isSpace(b) == b = " " \/ b = "\t"

\* split, "Skip whitespace" (line 26): the first index >= start (from 0) that
\* holds no space.
RECURSIVE SkipSpace(_, _)
SkipSpace(data, start) ==
    IF start < Len(data) /\ isSpace(data[start + 1])
    THEN SkipSpace(data, start + 1)
    ELSE start

\* split, "Read token" (lines 36-46): the loop over end.
RECURSIVE ReadToken(_, _, _, _)
ReadToken(data, start, end, isQuote) ==
    IF end >= Len(data)
    THEN [start |-> start, end |-> end, isQuote |-> isQuote, foundEnd |-> FALSE]
    ELSE IF end = start /\ data[end + 1] = Q
    THEN ReadToken(data, start + 1, end + 1, TRUE)
    ELSE IF (isQuote /\ data[end + 1] = Q) \/ (~isQuote /\ isSpace(data[end + 1]))
    THEN [start |-> start, end |-> end, isQuote |-> isQuote, foundEnd |-> TRUE]
    ELSE ReadToken(data, start, end + 1, isQuote)

\* split, lines 48-72: what split returns once the token loop has stopped at
\* r = (start, end, isQuote, foundEnd).
splitReturn(data, atEOF, r) ==
    IF ~r.foundEnd /\ atEOF /\ r.isQuote
    THEN [adv |-> 0, tok |-> << >>, isNil |-> TRUE, err |-> "MissingEndQuote"]
    ELSE IF ~r.foundEnd /\ atEOF /\ r.start = r.end
    THEN [adv |-> 0, tok |-> << >>, isNil |-> TRUE, err |-> "FinalToken"]
    ELSE IF ~r.foundEnd /\ ~atEOF
    THEN [adv |-> r.start, tok |-> << >>, isNil |-> TRUE, err |-> "nil"]
    ELSE [adv |-> IF r.isQuote THEN r.end + 1 ELSE r.end,
          tok |-> SubSeq(data, r.start + 1, r.end),
          isNil |-> FALSE, err |-> "nil"]

\* split(data, atEOF) = (advance, token, err); isNil: the token is nil.
split(data, atEOF) ==
    splitReturn(data, atEOF,
                ReadToken(data, SkipSpace(data, 0), SkipSpace(data, 0), FALSE))

\* The loop "for s.Scan()" of parseLine (lines 81-86) over a bufio.Scanner
\* that reads a strings.Reader: the first Read delivers the whole string,
\* the next one io.EOF; split is called on the unread bytes with atEOF set
\* once EOF has been read; a nil token makes the Scanner read on, a non-nil
\* one is the next s.Text(); the loop breaks at an empty token.
\* ScanStep is what the Scanner does with r, the result of split.
RECURSIVE ScanLoop(_, _, _)
RECURSIVE ScanStep(_, _, _, _)
ScanStep(data, atEOF, acc, r) ==
    IF r.err = "FinalToken"
    THEN [toks |-> acc, err |-> "nil"]
    ELSE IF r.err # "nil"
    THEN [toks |-> acc, err |-> r.err]
    ELSE IF ~r.isNil
    THEN IF Len(r.tok) = 0
         THEN [toks |-> acc, err |-> "nil"]
         ELSE ScanLoop(SubSeq(data, r.adv + 1, Len(data)), atEOF,
                       Append(acc, r.tok))
    ELSE IF atEOF
    THEN [toks |-> acc, err |-> "nil"]
    ELSE ScanLoop(SubSeq(data, r.adv + 1, Len(data)), TRUE, acc)

ScanLoop(data, atEOF, acc) ==
    IF Len(data) = 0 /\ ~atEOF
    THEN ScanLoop(data, TRUE, acc)
    ELSE ScanStep(data, atEOF, acc, split(data, atEOF))

\* The tokens the Scanner yields for v, before parseLine's checks.
scanLine(v) == ScanLoop(v, FALSE, << >>)

\* parseLine, lines 87-93: the checks on the Scanner's result s.
parseLineReturn(s) ==
    IF s.err # "nil"
    THEN [toks |-> << >>, err |-> s.err]
    ELSE IF Len(s.toks) = 0
    THEN [toks |-> << >>, err |-> "MissingValue"]
    ELSE [toks |-> s.toks, err |-> "nil"]

\* parseLine(v) = (lines, err)
parseLine(v) == parseLineReturn(scanLine(v))

\* trimPrefix comparing with == instead of strings.EqualFold.
trimPrefixExact(v, prefixes) ==
    IF Len(v) < Len(prefixes)
    THEN [toks |-> << >>, err |-> "Expected", expected |-> prefixes]
    ELSE IF \E i \in 1..Len(prefixes) : v[i] # prefixes[i]
    THEN [toks |-> << >>, err |-> "Expected", expected |-> prefixes]
    ELSE [toks |-> SubSeq(v, Len(prefixes) + 1, Len(v)), err |-> "nil",
          expected |-> << >>]

\* trimPrefix comparing the first prefix only.
trimPrefixFirstOnly(v, prefixes) ==
    IF Len(v) < Len(prefixes)
    THEN [toks |-> << >>, err |-> "Expected", expected |-> prefixes]
    ELSE IF Len(prefixes) >= 1 /\ ~EqualFold(v[1], prefixes[1])
    THEN [toks |-> << >>, err |-> "Expected", expected |-> prefixes]
    ELSE [toks |-> SubSeq(v, Len(prefixes) + 1, Len(v)), err |-> "nil",
          expected |-> << >>]

\* trimPrefix(v, prefixes) = (rest, err); the error is "<prefixes> expected".
trimPrefix(v, prefixes) ==
    IF Len(v) < Len(prefixes)
    THEN [toks |-> << >>, err |-> "Expected", expected |-> prefixes]
    ELSE IF \E i \in 1..Len(prefixes) : ~EqualFold(v[i], prefixes[i])
    THEN [toks |-> << >>, err |-> "Expected", expected |-> prefixes]
    ELSE [toks |-> SubSeq(v, Len(prefixes) + 1, Len(v)), err |-> "nil",
          expected |-> << >>]

\* ------------------------------------------------ tokenizer (reader.go)
\* isSpace of reader.go without the tab.
isSpaceReaderNoTab(b) == b = " " \/ b = "\r" \/ b = "\n"

\* isSpace of reader.go
isSpaceReader(b) == b = " " \/ b = "\t" \/ b = "\r" \/ b = "\n"

\* split of reader.go, line 27 and line 62: the first index >= i (from 0)
\* that holds a space (stopAtSpace), or that holds none.
RECURSIVE RunEnd(_, _, _)
RunEnd(data, i, stopAtSpace) ==
    IF i < Len(data) /\ isSpaceReader(data[i + 1]) # stopAtSpace
    THEN RunEnd(data, i + 1, stopAtSpace)
    ELSE i

\* split of reader.go, lines 42-48: the first index >= i that holds a double
\* quote, Len(data) when there is none.
RECURSIVE QuoteEnd(_, _)
QuoteEnd(data, i) ==
    IF i < Len(data) /\ data[i + 1] # Q THEN QuoteEnd(data, i + 1) ELSE i

SplitResult(adv, tok, err) ==
    [adv |-> adv, tok |-> tok, isNil |-> tok = << >>, err |-> err]

\* split of reader.go, lines 39-66, from the index a of the first byte that
\* is no space; q is the index of the closing quote of a quoted token.  The
\* token is nil when no byte was appended to it.
splitReaderQuoted(data, atEOF, a, q) ==
    IF q = Len(data)
    THEN IF atEOF
         THEN SplitResult(q, << >>, "MissingEndQuote")
         ELSE SplitResult(0, << >>, "nil")
    ELSE SplitResult(RunEnd(data, q + 1, TRUE),
                     SubSeq(data, a + 2, q)
                        \o SubSeq(data, q + 2, RunEnd(data, q + 1, TRUE)),
                     "nil")

splitReaderFrom(data, atEOF, a) ==
    IF a = Len(data)
    THEN SplitResult(a, << >>, IF atEOF THEN "FinalToken" ELSE "nil")
    ELSE IF data[a + 1] = Q
    THEN splitReaderQuoted(data, atEOF, a, QuoteEnd(data, a + 1))
    ELSE SplitResult(RunEnd(data, a, TRUE),
                     SubSeq(data, a + 1, RunEnd(data, a, TRUE)), "nil")

\* split(data, atEOF) of reader.go = (advance, token, err)
splitReader(data, atEOF) == splitReaderFrom(data, atEOF, RunEnd(data, 0, FALSE))

\* The loop "for s.Scan()" of TestSplit (reader_test.go, lines 39-47) over a
\* bufio.Scanner that reads a strings.Reader and splits with split of
\* reader.go; empty tokens are left out.
RECURSIVE ScanLoopReader(_, _, _)
RECURSIVE ScanStepReader(_, _, _, _)
ScanStepReader(data, atEOF, acc, r) ==
    IF r.err = "FinalToken"
    THEN [toks |-> acc, err |-> "nil"]
    ELSE IF r.err # "nil"
    THEN [toks |-> acc, err |-> r.err]
    ELSE IF ~r.isNil
    THEN ScanLoopReader(SubSeq(data, r.adv + 1, Len(data)), atEOF,
                        Append(acc, r.tok))
    ELSE IF atEOF
    THEN [toks |-> acc, err |-> "nil"]
    ELSE ScanLoopReader(SubSeq(data, r.adv + 1, Len(data)), TRUE, acc)

ScanLoopReader(data, atEOF, acc) ==
    IF Len(data) = 0 /\ ~atEOF
    THEN ScanLoopReader(data, TRUE, acc)
    ELSE ScanStepReader(data, atEOF, acc, splitReader(data, atEOF))

scanReader(v) == ScanLoopReader(v, FALSE, << >>)

\* ----------------------------------------------- listReader (reader.go)
KwVar == << "v", "a", "r" >>

NoVars == [v |-> {}, err |-> "nil", reason |-> << >>]

\* l.variables[varName] = value: m is the set of the map's pairs.
MapPut(m, k, val) == { e \in m : e[1] # k } \cup { << k, val >> }

\* listReader.parse, lines 104-128: the loop "for l.next()" over the tokens
\* the Scanner yields, i of which have been read; next() is false when no
\* token is left.
RECURSIVE ParseRows(_, _, _)
ParseRows(toks, i, m) ==
    IF i >= Len(toks)
    THEN [NoVars EXCEPT !.err = "UnexpectedEof"]
    ELSE IF ToLower(toks[i + 1]) = KwEnd
    THEN IF /\ Len(toks) >= i + 4
            /\ ToLower(toks[i + 2]) = KwList
            /\ ToLower(toks[i + 3]) = KwVar
         THEN [NoVars EXCEPT !.v = m]
         ELSE [NoVars EXCEPT !.err = "UnexpectedEof"]
    ELSE IF ToLower(toks[i + 1]) # KwVar
    THEN [NoVars EXCEPT !.err = "VarExpected"]
    ELSE IF Len(toks) < i + 2
    THEN [NoVars EXCEPT !.err = "UnexpectedEof"]
    ELSE IF Len(toks) < i + 3
    THEN [NoVars EXCEPT !.err = "VarNameMissing"]
    ELSE IF Len(toks) < i + 4
    THEN [NoVars EXCEPT !.err = "VarValueMissing"]
    ELSE ParseRows(toks, i + 4, MapPut(m, toks[i + 3], toks[i + 4]))

\* listReader.parse, lines 101-103, then the loop.
parseToks(toks) ==
    IF /\ Len(toks) >= 3
       /\ ToLower(toks[1]) = KwBegin
       /\ ToLower(toks[2]) = KwList
    THEN ParseRows(toks, 3, {})
    ELSE [NoVars EXCEPT !.err = "BeginListMissing"]

\* listReader.parse on a reader that holds the string v: the variables and
\* the error.
listReaderParse(v) == parseToks(scanReader(v).toks)

\* ------------------------------------------- nutConn (unnamed/part_002)
NoSend == [prefixes |-> << >>, l |-> << >>, err |-> "nil", reason |-> << >>,
           written |-> << >>, rest |-> << >>]

\* send, lines 131-136 and the Write of line 137: the bytes sent.
writeCmd(cmdName, v) ==
    (IF v = << >> THEN cmdName ELSE cmdName \o << " " >> \o v) \o << "\n" >>

\* send without the check of lines 148-150: an ERR line is an ordinary reply.
sendReturnNoErr(cmdName, v, writeOk, lines, readErr, p, l) ==
    IF p.err # "nil"
    THEN [NoSend EXCEPT !.err = p.err, !.rest = lines]
    ELSE IF ~writeOk
    THEN [NoSend EXCEPT !.err = "IOErr", !.rest = lines]
    ELSE IF lines = << >>
    THEN [NoSend EXCEPT !.err = readErr, !.written = writeCmd(cmdName, v)]
    ELSE IF l.err # "nil"
    THEN [NoSend EXCEPT !.err = l.err, !.written = writeCmd(cmdName, v),
                        !.rest = Tail(lines)]
    ELSE [prefixes |-> p.toks, l |-> l.toks, err |-> "nil",
          reason |-> << >>, written |-> writeCmd(cmdName, v),
          rest |-> Tail(lines)]

\* send, lines 127-151, given p = parseLine(v) and l = parseLine of the line
\* read (when one is read).
sendReturn(cmdName, v, writeOk, lines, readErr, p, l) ==
    IF p.err # "nil"
    THEN [NoSend EXCEPT !.err = p.err, !.rest = lines]
    ELSE IF ~writeOk
    THEN [NoSend EXCEPT !.err = "IOErr", !.rest = lines]
    ELSE IF lines = << >>
    THEN [NoSend EXCEPT !.err = readErr,
                        !.written = writeCmd(cmdName, v)]
    ELSE IF l.err # "nil"
    THEN [NoSend EXCEPT !.err = l.err,
                        !.written = writeCmd(cmdName, v),
                        !.rest = Tail(lines)]
    ELSE IF Len(l.toks) >= 2 /\ ToLower(l.toks[1]) = << "e", "r", "r" >>
    THEN [NoSend EXCEPT !.err = "ServerErr", !.reason = l.toks[2],
                        !.written = writeCmd(cmdName, v),
                        !.rest = Tail(lines)]
    ELSE [prefixes |-> p.toks, l |-> l.toks, err |-> "nil",
          reason |-> << >>,
          written |-> writeCmd(cmdName, v),
          rest |-> Tail(lines)]

\* n.send(cmd, v) on a connection whose Write succeeds or not (writeOk) and
\* whose scanner yields lines and then stops with readErr: (prefixes, l, err),
\* the bytes written and the lines left unread.
send(cmdName, v, writeOk, lines, readErr) ==
    sendReturn(cmdName, v, writeOk, lines, readErr, parseLine(v),
               parseLine(IF lines = << >> THEN << >> ELSE lines[1]))

\* n.runGet(v) = (value, err)
runGet(v, writeOk, lines, readErr) ==
    LET s == send(<< "G", "E", "T" >>, v, writeOk, lines, readErr)
        t == trimPrefix(s.l, s.prefixes)
    IN  IF s.err # "nil"
        THEN [v |-> << >>, err |-> s.err, reason |-> s.reason]
        ELSE IF t.err # "nil"
        THEN [v |-> << >>, err |-> t.err, reason |-> t.expected]
        ELSE IF Len(t.toks) = 0
        THEN [v |-> << >>, err |-> "MissingValue", reason |-> << >>]
        ELSE [v |-> t.toks[1], err |-> "nil", reason |-> << >>]

\* n.runCmd(v), lines 201-210, given s = n.send(v, ""): its error.
runCmdReturn(s) ==
    IF s.err # "nil"
    THEN [v |-> << >>, err |-> s.err, reason |-> s.reason]
    ELSE IF Len(s.l) < 1 \/ ToLower(s.l[1]) # << "o", "k" >>
    THEN [v |-> << >>, err |-> "UnexpectedEOF", reason |-> << >>]
    ELSE [v |-> << >>, err |-> "nil", reason |-> << >>]

\* n.runCmd(v): the command name is the first argument of send and the
\* string of prefixes is empty.
runCmd(v, writeOk, lines, readErr) ==
    runCmdReturn(send(v, << >>, writeOk, lines, readErr))

NoList == [v |-> << >>, err |-> "nil", reason |-> << >>, rest |-> << >>]

\* runList, lines 195-198: the check of the END line l and the return.
ListEnd(lines, prefixes, values, l) ==
    IF trimPrefix(l, << KwEnd, KwList >> \o prefixes).err # "nil"
    THEN [NoList EXCEPT !.err = "Expected",
                        !.reason = << KwEnd, KwList >> \o prefixes,
                        !.rest = Tail(lines)]
    ELSE [NoList EXCEPT !.v = values, !.rest = Tail(lines)]

\* runList, lines 178-194: the loop over the lines after BEGIN LIST.
\* ListLoop reads the next line, ListStep handles the parsed line l and
\* ListRow the row's tokens t after the prefix.
RECURSIVE ListLoop(_, _, _)
RECURSIVE ListStep(_, _, _, _)
RECURSIVE ListRow(_, _, _, _)
\* ListRow returning the rows read so far when a row lacks the prefix.
ListRowPartial(lines, prefixes, values, t) ==
    IF t.err # "nil"
    THEN [NoList EXCEPT !.v = values, !.rest = Tail(lines)]
    ELSE ListLoop(Tail(lines), prefixes, Append(values, t.toks))

ListRow(lines, prefixes, values, t) ==
    IF t.err # "nil"
    THEN [NoList EXCEPT !.err = "Expected", !.reason = prefixes,
                        !.rest = Tail(lines)]
    ELSE ListLoop(Tail(lines), prefixes, Append(values, t.toks))

ListStep(lines, prefixes, values, l) ==
    IF l.err # "nil"
    THEN [NoList EXCEPT !.err = l.err, !.rest = Tail(lines)]
    ELSE IF ToLower(l.toks[1]) = KwEnd
    THEN ListEnd(lines, prefixes, values, l.toks)
    ELSE ListRow(lines, prefixes, values, trimPrefix(l.toks, prefixes))

ListLoop(lines, prefixes, values) ==
    IF lines = << >>
    THEN [NoList EXCEPT !.err = "UnexpectedEOF"]
    ELSE ListStep(lines, prefixes, values, parseLine(lines[1]))

\* runList, lines 170-177, given s, the result of n.send("LIST", v).
runListReturn(s) ==
    IF s.err # "nil"
    THEN [NoList EXCEPT !.err = s.err, !.reason = s.reason, !.rest = s.rest]
    ELSE IF trimPrefix(s.l, << KwBegin, KwList >> \o s.prefixes).err # "nil"
    THEN [NoList EXCEPT !.err = "Expected",
                        !.reason = << KwBegin, KwList >> \o s.prefixes,
                        !.rest = s.rest]
    ELSE ListLoop(s.rest, s.prefixes, << >>)

\* n.runList(v) = (values, err), and the lines left unread.
runList(v, writeOk, lines, readErr) ==
    runListReturn(send(<< "L", "I", "S", "T" >>, v, writeOk, lines, readErr))

\* ------------------------------------------------- the codec's inputs
\* Tokens of an argument string, and of a reply line.
MaxArgToks == 2
MaxReplyToks == 3

RECURSIVE JoinSp(_)
JoinSp(ws) ==
    IF Len(ws) = 0 THEN << >>
    ELSE IF Len(ws) = 1 THEN ws[1]
    ELSE ws[1] \o << " " >> \o JoinSp(Tail(ws))

SeqsUpTo(S, n) == UNION { [1..k -> S] : k \in 0..n }

ArgWords == { << "a" >>, << "e", "r", "r" >> }
ReplyWords == { << "a" >>, << "A" >>, << "b" >>, << "E", "R", "R" >>,
                << "E", "r", "r" >>, << Q, "b", " ", "c", Q >> }

ArgStrings == { JoinSp(ws) : ws \in SeqsUpTo(ArgWords, MaxArgToks) }
ReplyLines == { JoinSp(ws) : ws \in SeqsUpTo(ReplyWords, MaxReplyToks) }

NoOut == [v |-> << >>, err |-> "nil", reason |-> << >>]

ParseIdle ==
    /\ pArgs = << >>
    /\ pWriteOk = TRUE
    /\ pIn = << >>
    /\ pLines = << >>
    /\ pReadErr = "nil"
    /\ pWritten = << >>
    /\ pOp = "none"
    /\ pOut = NoOut

ParseInit ==
    /\ pArgs \in ArgStrings
    /\ pWriteOk \in BOOLEAN
    /\ pIn \in { << >> } \cup { << l >> : l \in ReplyLines }
    /\ pLines = pIn
    /\ pReadErr \in (IF pIn = << >> THEN {"nil", "IOErr"} ELSE {"nil"})
    /\ pWritten = << >>
    /\ pOp = "none"
    /\ pOut = NoOut

\* n.runGet(pArgs) is called.
CallRunGet ==
    /\ pOp = "none"
    /\ pOp' = "runGet"
    /\ pOut' = runGet(pArgs, pWriteOk, pLines, pReadErr)
    /\ pWritten' = send(<< "G", "E", "T" >>, pArgs, pWriteOk, pLines, pReadErr).written
    /\ pLines' = send(<< "G", "E", "T" >>, pArgs, pWriteOk, pLines, pReadErr).rest
    /\ UNCHANGED << pArgs, pWriteOk, pIn, pReadErr >>
    /\ UNCHANGED << clientVars, monVars >>

ParseNext ==
    \/ CallRunGet

\* The token lists trimPrefix is called with: those of the reply line and
\* of the argument string (none when there is no line or no token).
TrimV == IF pIn = << >> THEN << >> ELSE parseLine(pIn[1]).toks
TrimPrefixes == parseLine(pArgs).toks

\* trimPrefix(TrimV, TrimPrefixes) is called, given its result t.
TrimReturn(t) ==
    /\ pOp' = "trimPrefix"
    /\ pOut' = [v |-> t.toks, err |-> t.err, reason |-> t.expected]
    /\ UNCHANGED << pArgs, pWriteOk, pIn, pLines, pReadErr, pWritten >>
    /\ UNCHANGED << clientVars, monVars >>

CallTrimPrefix ==
    /\ pOp = "none"
    /\ TrimReturn(trimPrefix(TrimV, TrimPrefixes))

TrimNext ==
    \/ CallTrimPrefix

\* Command names and reply lines for runCmd.
CmdNames == { << "H", "E", "L", "P" >>, << "a" >>, << "a", " ", "b" >> }
CmdReplyWords == { << "O", "K" >>, << "o", "k" >>, << "O", "k" >>, << "a" >>,
                   << "E", "R", "R" >> }
CmdReplyLines == { JoinSp(ws) : ws \in SeqsUpTo(CmdReplyWords, MaxReplyToks) }

CmdInit ==
    /\ pArgs \in CmdNames
    /\ pWriteOk \in BOOLEAN
    /\ pIn \in { << >> } \cup { << l >> : l \in CmdReplyLines }
    /\ pLines = pIn
    /\ pReadErr \in (IF pIn = << >> THEN {"nil", "IOErr"} ELSE {"nil"})
    /\ pWritten = << >>
    /\ pOp = "none"
    /\ pOut = NoOut

\* n.runCmd(pArgs) is called.
CallRunCmd ==
    /\ pOp = "none"
    /\ pOp' = "runCmd"
    /\ pOut' = runCmd(pArgs, pWriteOk, pLines, pReadErr)
    /\ pWritten' = send(pArgs, << >>, pWriteOk, pLines, pReadErr).written
    /\ pLines' = send(pArgs, << >>, pWriteOk, pLines, pReadErr).rest
    /\ UNCHANGED << pArgs, pWriteOk, pIn, pReadErr >>
    /\ UNCHANGED << clientVars, monVars >>

CmdNext ==
    \/ CallRunCmd

\* Rows of a list reply, and the lists of rows.
MaxRowToks == 1
MaxRows == 2

\* The values of a row: a word, a value that holds a space, the empty value.
RowWords == { << "b" >>, << "b", " ", "c" >>, << >> }
ListPrefixes == { << << "a" >> >>, << << "a" >>, << "b" >> >> }
Rows == SeqsUpTo(RowWords, MaxRowToks)
RowLists == SeqsUpTo(Rows, MaxRows)

\* A value as the server writes it: in double quotes when it is empty or
\* holds white space.
EncodeTok(t) ==
    IF t = << >> \/ \E i \in 1..Len(t) : isSpace(t[i])
    THEN << Q >> \o t \o << Q >>
    ELSE t

EncodeRow(prefix, row) ==
    JoinSp(prefix \o [i \in 1..Len(row) |-> EncodeTok(row[i])])

BeginLine(prefix) == JoinSp(<< << "B", "E", "G", "I", "N" >>,
                               << "L", "I", "S", "T" >> >> \o prefix)
EndLine(prefix) == JoinSp(<< << "E", "N", "D" >>,
                             << "L", "I", "S", "T" >> >> \o prefix)

\* The reply to LIST <prefix> with the given rows.
EncodeList(prefix, rows) ==
    << BeginLine(prefix) >>
        \o [i \in 1..Len(rows) |-> EncodeRow(prefix, rows[i])]
        \o << EndLine(prefix) >>

\* A prefix that no request uses, for the lines of a malformed reply.
OtherPrefix == << << "b" >> >>

\* The replies the server sends: the well-formed one, and the malformed ones:
\* the input ends before END LIST, BEGIN LIST or END LIST carries another
\* prefix, BEGIN LIST is missing, a row starts with another prefix; and the
\* reply ERR <reason>.
ReplyKinds == { "ok", "eof", "begin", "nobegin", "row", "end", "err" }

ListReply(prefix, rows, kind) ==
    CASE kind = "ok" -> EncodeList(prefix, rows)
      [] kind = "eof" ->
            SubSeq(EncodeList(prefix, rows), 1, Len(rows) + 1)
      [] kind = "begin" ->
            << BeginLine(OtherPrefix) >> \o Tail(EncodeList(prefix, rows))
      [] kind = "nobegin" -> Tail(EncodeList(prefix, rows))
      [] kind = "row" ->
            SubSeq(EncodeList(prefix, rows), 1, Len(rows) + 1)
                \o << EncodeRow(OtherPrefix, << << "b" >> >>),
                      EndLine(prefix) >>
      [] kind = "end" ->
            SubSeq(EncodeList(prefix, rows), 1, Len(rows) + 1)
                \o << EndLine(OtherPrefix) >>
      [] kind = "err" ->
            << << "E", "R", "R", " ", "a" >> >>
                \o Tail(EncodeList(prefix, rows))

ListInit ==
    /\ \E prefix \in ListPrefixes, rows \in RowLists, kind \in ReplyKinds :
            /\ pArgs = JoinSp(prefix)
            /\ pIn = ListReply(prefix, rows, kind)
    /\ pWriteOk \in BOOLEAN
    /\ pLines = pIn
    /\ pReadErr = "nil"
    /\ pWritten = << >>
    /\ pOp = "none"
    /\ pOut = NoOut

\* n.runList(pArgs) is called.
CallRunList ==
    /\ pOp = "none"
    /\ pOp' = "runList"
    /\ pOut' = [v |-> runList(pArgs, pWriteOk, pLines, pReadErr).v,
                err |-> runList(pArgs, pWriteOk, pLines, pReadErr).err,
                reason |-> runList(pArgs, pWriteOk, pLines, pReadErr).reason]
    /\ pWritten' = send(<< "L", "I", "S", "T" >>, pArgs, pWriteOk, pLines,
                        pReadErr).written
    /\ pLines' = runList(pArgs, pWriteOk, pLines, pReadErr).rest
    /\ UNCHANGED << pArgs, pWriteOk, pIn, pReadErr >>
    /\ UNCHANGED << clientVars, monVars >>

ListNext ==
    \/ CallRunList

\* The lines given to the tokenizers: every string of at most MaxLineLen
\* bytes over a letter, the white space bytes and the double quote, and the
\* inputs of TestSplit.
MaxLineLen == 5

LineBytes == { "a", " ", "\t", "\n", Q }
ExampleLines ==
    { << "a", " ", Q, "b", " ", "c", Q, " ", "d" >>,
      << " ", "t", "e", "s", "t", "\t", "t", "e", "s", "t", "\n" >>,
      << "a", " ", Q, "b" >> }
TokLines == SeqsUpTo(LineBytes, MaxLineLen) \cup ExampleLines

TokInit ==
    /\ pArgs \in TokLines
    /\ pWriteOk = TRUE
    /\ pIn = << >>
    /\ pLines = << >>
    /\ pReadErr = "nil"
    /\ pWritten = << >>
    /\ pOp = "none"
    /\ pOut = NoOut

\* A Scanner with split of part_002 tokenizes pArgs, one line of a reply
\* (bufio.ScanLines has removed the line separators).
CallScan ==
    /\ pOp = "none"
    /\ \A i \in 1..Len(pArgs) : pArgs[i] \notin { "\n", "\r" }
    /\ pOp' = "scan"
    /\ pOut' = [v |-> scanLine(pArgs).toks, err |-> scanLine(pArgs).err,
                reason |-> << >>]
    /\ UNCHANGED << pArgs, pWriteOk, pIn, pLines, pReadErr, pWritten >>
    /\ UNCHANGED << clientVars, monVars >>

\* A Scanner with split of reader.go tokenizes pArgs.
CallScanReader ==
    /\ pOp = "none"
    /\ pOp' = "scanReader"
    /\ pOut' = [v |-> scanReader(pArgs).toks, err |-> scanReader(pArgs).err,
                reason |-> << >>]
    /\ UNCHANGED << pArgs, pWriteOk, pIn, pLines, pReadErr, pWritten >>
    /\ UNCHANGED << clientVars, monVars >>

TokNext ==
    \/ CallScan
    \/ CallScanReader

\* The inputs of listReader.parse: the list of the variables of the ups u,
\* each row a key and a value, and the same input cut before its END line.
VarKeys == { << "a" >>, << "b" >> }
VarRows == [key : VarKeys, val : RowWords]
VarRowLists == SeqsUpTo(VarRows, MaxRows)

RECURSIVE JoinNl(_)
JoinNl(ls) ==
    IF Len(ls) = 0 THEN << >>
    ELSE IF Len(ls) = 1 THEN ls[1]
    ELSE ls[1] \o << "\n" >> \o JoinNl(Tail(ls))

\* The value of a variable as TestListReader writes it: in double quotes.
VarLine(row) ==
    << "V", "A", "R", " ", "u", " " >> \o row.key
        \o << " ", Q >> \o row.val \o << Q >>

VarListText(rows, cut) ==
    JoinNl(<< BeginLine(<< << "u" >> >>) >>
            \o [i \in 1..Len(rows) |-> VarLine(rows[i])]
            \o (IF cut THEN << >>
                ELSE << EndLine(<< << "V", "A", "R" >>, << "u" >> >>) >>))

VarInit ==
    /\ pArgs \in { << >> } \cup { VarListText(rows, cut) :
                                    rows \in VarRowLists, cut \in BOOLEAN }
    /\ pWriteOk = TRUE
    /\ pIn = << >>
    /\ pLines = << >>
    /\ pReadErr = "nil"
    /\ pWritten = << >>
    /\ pOp = "none"
    /\ pOut = NoOut

\* newListReader(strings.NewReader(pArgs)), or listReader.parse on it.
CallListReader ==
    /\ pOp = "none"
    /\ pOp' = "listReader"
    /\ pOut' = listReaderParse(pArgs)
    /\ UNCHANGED << pArgs, pWriteOk, pIn, pLines, pReadErr, pWritten >>
    /\ UNCHANGED << clientVars, monVars >>

VarNext ==
    \/ CallListReader

\* ------------------------------------------- Monitor (monitor/config.go)
\* Status values polled per run.
MaxPolls == 4

\* strings.Split(v, " "), with cur the part being read.
RECURSIVE SplitFrom(_, _)
SplitFrom(v, cur) ==
    IF v = << >> THEN << cur >>
    ELSE IF Head(v) = " " THEN << cur >> \o SplitFrom(Tail(v), << >>)
    ELSE SplitFrom(Tail(v), Append(cur, Head(v)))

\* The parts p of strings.Split(v, " ") (line 63).
StatusParts(v) == SplitFrom(v, << >>)

\* An EvaluateStatusFn of the user's: on battery when OB is in the status.
CustomEvaluate(parts) == \E i \in 1..Len(parts) : parts[i] = << "O", "B" >>

\* runEvaluateStatusFn given the parts of v: the user's function when there
\* is one, else on battery unless OL is among the parts.
evaluateParts(parts, custom) ==
    IF custom THEN CustomEvaluate(parts)
    ELSE ~ \E i \in 1..Len(parts) : parts[i] = << "O", "L" >>

runEvaluateStatusFn(v, custom) == evaluateParts(StatusParts(v), custom)

\* The values of ups.status the server is polled for.
Statuses == { << "O", "L" >>, << "O", "B" >>,
              << "O", "L", " ", "C", "H", "R", "G" >>,
              << "O", "B", " ", "L", "B" >>,
              << "O", "L", "B" >>, << >> }

MonIdle ==
    /\ mOnBattery = FALSE
    /\ mPolled = << >>
    /\ mHasLostFn = TRUE
    /\ mHasRestoredFn = TRUE
    /\ mCustomEval = FALSE
    /\ mLost = 0
    /\ mRestored = 0
    /\ monPc = "off"
    /\ mConnected = FALSE
    /\ mTimer = "nil"
    /\ connClosed = FALSE

\* monitor.New: m.onBattery is false; the callbacks are the user's.
MonInit ==
    /\ mOnBattery = FALSE
    /\ mPolled = << >>
    /\ mHasLostFn \in BOOLEAN
    /\ mHasRestoredFn \in BOOLEAN
    /\ mCustomEval \in BOOLEAN
    /\ mLost = 0
    /\ mRestored = 0
    /\ monPc = "off"
    /\ mConnected = FALSE
    /\ mTimer = "nil"
    /\ connClosed = FALSE

\* processResponse that does not store the status for the next iteration.
processResponseNoStore(v, onBattery) ==
    /\ Len(mPolled) < MaxPolls
    /\ mPolled' = Append(mPolled, v)
    /\ mLost' = IF ~mOnBattery /\ onBattery /\ mHasLostFn
                THEN mLost + 1 ELSE mLost
    /\ mRestored' = IF /\ ~(~mOnBattery /\ onBattery /\ mHasLostFn)
                       /\ mOnBattery /\ ~onBattery /\ mHasRestoredFn
                    THEN mRestored + 1 ELSE mRestored
    /\ mOnBattery' = mOnBattery
    /\ UNCHANGED << mHasLostFn, mHasRestoredFn, mCustomEval >>
    /\ UNCHANGED << clientVars, parseVars >>

\* m.processResponse(v), lines 88-103, given onBattery, the result of
\* runEvaluateStatusFn(v): the switch invokes the callback of its first
\* true case, then m.onBattery is stored.
processResponse(v, onBattery) ==
    /\ Len(mPolled) < MaxPolls
    /\ mPolled' = Append(mPolled, v)
    /\ mLost' = IF ~mOnBattery /\ onBattery /\ mHasLostFn
                THEN mLost + 1 ELSE mLost
    /\ mRestored' = IF /\ ~(~mOnBattery /\ onBattery /\ mHasLostFn)
                       /\ mOnBattery /\ ~onBattery /\ mHasRestoredFn
                    THEN mRestored + 1 ELSE mRestored
    /\ mOnBattery' = onBattery
    /\ UNCHANGED << mHasLostFn, mHasRestoredFn, mCustomEval >>
    /\ UNCHANGED << clientVars, parseVars >>

\* Monitor.run has polled the status v with success (lines 126-130).
Poll(v) ==
    /\ processResponse(v, runEvaluateStatusFn(v, mCustomEval))
    /\ UNCHANGED monRunVars

MonNext ==
    \/ \E v \in Statuses : Poll(v)

\* ------------------------------- Monitor.run, Close (monitor/config.go)
\* Part 4 (SpecMonRun): the Monitor with its Client.  monitor.New gives the
\* client m.connected and m.disconnected as ConnectedFn and DisconnectedFn
\* and no keep-alive interval; the goroutine of Monitor.run is the only
\* caller of Get and Monitor.Close the only caller of the client's Close.
MonGetter == "g1"
MonCloser == "k1"

\* Get calls of Monitor.run.
MaxMonGets == 2

\* The status values of the polls.
MonStatuses == { << "O", "L" >>, << "O", "B" >> }

\* monitor.New (lines 148-166): the client is started, then go m.run().
MonRunInit ==
    /\ mOnBattery = FALSE
    /\ mPolled = << >>
    /\ mHasLostFn = TRUE
    /\ mHasRestoredFn = TRUE
    /\ mCustomEval = FALSE
    /\ mLost = 0
    /\ mRestored = 0
    /\ monPc = "Top"
    /\ mConnected = FALSE
    /\ mTimer = "nil"
    /\ connClosed = FALSE

\* run, lines 125-126: connected, so m.client.Get(...) is called and blocks
\* in its send on requestChan (client.go:198).
MonGet ==
    /\ monPc = "Top"
    /\ mConnected
    /\ getCalls[MonGetter] < MaxMonGets
    /\ monPc' = "Get"
    /\ getPc' = [getPc EXCEPT ![MonGetter] = "send"]
    /\ getCalls' = [getCalls EXCEPT ![MonGetter] = @ + 1]
    /\ result' = [result EXCEPT ![MonGetter] = "none"]
    /\ gotFrom' = [gotFrom EXCEPT ![MonGetter] = "none"]
    /\ takenIn' = [takenIn EXCEPT ![MonGetter] = "none"]
    /\ UNCHANGED << mOnBattery, mPolled, mHasLostFn, mHasRestoredFn,
                    mCustomEval, mLost, mRestored, mConnected, mTimer,
                    connClosed >>
    /\ UNCHANGED parseVars
    /\ UNCHANGED << ctxDone, runPc, keepAlive, tickPending, resp, loopErr,
                    connVars, cmdVars, closeVars, cbVars, countVars >>

\* run, line 125: not connected, the select of line 133 is reached.
MonSkip ==
    /\ monPc = "Top"
    /\ ~mConnected
    /\ monPc' = "Select"
    /\ UNCHANGED << mOnBattery, mPolled, mHasLostFn, mHasRestoredFn,
                    mCustomEval, mLost, mRestored, mConnected, mTimer,
                    connClosed >>
    /\ UNCHANGED << clientVars, parseVars >>

\* run, lines 126-131: Get has returned; without an error the status is
\* processed; nextChan = time.After(poll interval); the select is reached.
MonGetReturn ==
    /\ monPc = "Get"
    /\ getPc[MonGetter] = "idle"
    /\ IF result[MonGetter] = "nil"
       THEN \E v \in MonStatuses :
                processResponse(v, runEvaluateStatusFn(v, mCustomEval))
       ELSE /\ UNCHANGED << mOnBattery, mPolled, mHasLostFn, mHasRestoredFn,
                            mCustomEval, mLost, mRestored >>
            /\ UNCHANGED << clientVars, parseVars >>
    /\ mTimer' = "armed"
    /\ monPc' = "Select"
    /\ UNCHANGED << mConnected, connClosed >>

\* run's select: case <-nextChan (line 134), the poll interval has passed.
\* The channel of time.After yields one value: afterwards it is as nil.
MonSelectTimer ==
    /\ monPc = "Select"
    /\ mTimer = "armed"
    /\ mTimer' = "nil"
    /\ monPc' = "Top"
    /\ UNCHANGED << mOnBattery, mPolled, mHasLostFn, mHasRestoredFn,
                    mCustomEval, mLost, mRestored, mConnected, connClosed >>
    /\ UNCHANGED << clientVars, parseVars >>

\* run's select: case v, ok := <-m.connChan with the channel closed (lines
\* 135-138): run returns.
MonRecvClosed ==
    /\ monPc = "Select"
    /\ connClosed
    /\ monPc' = "Exited"
    /\ UNCHANGED << mOnBattery, mPolled, mHasLostFn, mHasRestoredFn,
                    mCustomEval, mLost, mRestored, mConnected, mTimer,
                    connClosed >>
    /\ UNCHANGED << clientVars, parseVars >>

\* lifecycle calls ConnectedFn (client.go:137-139), which is m.connected:
\* m.connChan <- true (line 106) meets the receive of run's select (lines
\* 135-139, connected = true); the client goes on into its loop.
MonConnectedCb ==
    /\ runPc = "ConnectedCb"
    /\ monPc = "Select"
    /\ ~connClosed
    /\ mConnected' = TRUE
    /\ monPc' = "Top"
    /\ nConnected' = nConnected + 1
    /\ tickPending' = FALSE
    /\ runPc' = "Select"
    /\ UNCHANGED << mOnBattery, mPolled, mHasLostFn, mHasRestoredFn,
                    mCustomEval, mLost, mRestored, mTimer, connClosed >>
    /\ UNCHANGED parseVars
    /\ UNCHANGED << ctxDone, keepAlive, resp, loopErr, connVars, cmdVars,
                    getVars, closeVars, nDisconnected, countVars >>

\* loop has returned an error that is not context.Canceled: lifecycle calls
\* DisconnectedFn (client.go:146-148), which is m.disconnected:
\* m.connChan <- false (line 113) meets the receive of run's select
\* (connected = false, nextChan = nil, lines 139-142); the client goes to
\* the select of its backoff.
MonDisconnectedCb ==
    /\ runPc = "LoopRet"
    /\ loopErr # "Canceled"
    /\ monPc = "Select"
    /\ ~connClosed
    /\ mConnected' = FALSE
    /\ mTimer' = "nil"
    /\ monPc' = "Top"
    /\ nDisconnected' = nDisconnected + 1
    /\ tickPending' = FALSE
    /\ runPc' = "Backoff"
    /\ UNCHANGED << mOnBattery, mPolled, mHasLostFn, mHasRestoredFn,
                    mCustomEval, mLost, mRestored, connClosed >>
    /\ UNCHANGED parseVars
    /\ UNCHANGED << ctxDone, keepAlive, resp, loopErr, connVars, cmdVars,
                    getVars, closeVars, nConnected, countVars >>

\* The send of m.connected or m.disconnected on the closed m.connChan: the
\* goroutine of the client panics.
MonSendClosed ==
    /\ runPc = "ConnectedCb" \/ (runPc = "LoopRet" /\ loopErr # "Canceled")
    /\ connClosed
    /\ runPc' = "Panic"
    /\ UNCHANGED << parseVars, monVars >>
    /\ UNCHANGED << ctxDone, keepAlive, tickPending, resp, loopErr, connVars,
                    cmdVars, getVars, closeVars, cbVars, countVars >>

\* Monitor.Close, line 171: m.client.Close() has returned; close(m.connChan).
MonCloseChan ==
    /\ closeCalls[MonCloser] = 1
    /\ closePc[MonCloser] = "idle"
    /\ ~connClosed
    /\ connClosed' = TRUE
    /\ UNCHANGED << mOnBattery, mPolled, mHasLostFn, mHasRestoredFn,
                    mCustomEval, mLost, mRestored, monPc, mConnected, mTimer >>
    /\ UNCHANGED << clientVars, parseVars >>

\* The client without a keep-alive interval, called by the monitor only, and
\* the monitor.
MonRunNext ==
    \/ \E out \in Outcomes : CmdIO(out)
    \/ WatcherCancel
    \/ WatcherAbort
    \/ CmdReturn
    \/ SelectRequest(MonGetter)
    \/ SelectDone
    \/ \E rcv \in { MonGetter, MonCloser } : SendResp(rcv)
    \/ DialStart
    \/ \E ok \in BOOLEAN : DialEnd(ok)
    \/ MonConnectedCb
    \/ MonDisconnectedCb
    \/ (loopErr = "Canceled" /\ LoopReturn)
    \/ BackoffTimer
    \/ BackoffDone
    \/ GetRecvClosed(MonGetter)
    \/ CloseCall(MonCloser)
    \/ CloseRecvClosed(MonCloser)
    \/ MonGet
    \/ MonSkip
    \/ MonGetReturn
    \/ MonSelectTimer
    \/ MonRecvClosed
    \/ MonSendClosed
    \/ MonCloseChan

\* ----------------------------------------------------- specifications
Init == ClientInit /\ ParseIdle /\ MonIdle

Next == ClientNext

Spec == Init /\ [][Next]_vars

\* The scheduling the code can rely on.  Every goroutine that can take a
\* step takes one: the watcher, the return of runCommand, the steps of
\* lifecycle and run, a send on responseChan that has a receiver, a receive
\* on the closed responseChan.  A dial returns (the dialer has a timeout and
\* the context).  Socket I/O is only known to return once the socket has been
\* closed: a silent server blocks it for ever.  A select chooses at random
\* among its ready cases, so a case that is ready every time the select is
\* reached is taken at last (strong fairness of the two ctx.Done cases).
Fairness ==
    /\ WF_vars(WatcherCancel)
    /\ WF_vars(WatcherAbort)
    /\ WF_vars(cmd.conn \notin openSocks /\ CmdIO("IOErr"))
    /\ WF_vars(CmdReturn)
    /\ SF_vars(SelectDone)
    /\ WF_vars(\E rcv \in Getters \cup Closers : SendResp(rcv))
    /\ WF_vars(DialStart)
    /\ WF_vars(\E ok \in BOOLEAN : DialEnd(ok))
    /\ WF_vars(ConnectedCb)
    /\ WF_vars(LoopReturn)
    /\ WF_vars(\E rcv \in Getters \cup Closers : BackoffResp(rcv))
    /\ SF_vars(BackoffDone)
    /\ \A k \in Closers : WF_vars(CloseRecvClosed(k))

SpecFair == Init /\ [][Next]_vars /\ Fairness

InitParse == ClientInit /\ keepAlive = FALSE /\ ParseInit /\ MonIdle

NextParse == ParseNext

SpecParse == InitParse /\ [][NextParse]_vars

InitCmd == ClientInit /\ keepAlive = FALSE /\ CmdInit /\ MonIdle

NextCmd == CmdNext

SpecCmd == InitCmd /\ [][NextCmd]_vars

InitTrim == ClientInit /\ keepAlive = FALSE /\ ParseInit /\ MonIdle

NextTrim == TrimNext

SpecTrim == InitTrim /\ [][NextTrim]_vars

InitMon == ClientInit /\ keepAlive = FALSE /\ ParseIdle /\ MonInit

NextMon == MonNext

SpecMon == InitMon /\ [][NextMon]_vars

InitMonRun == ClientInit /\ keepAlive = FALSE /\ ParseIdle /\ MonRunInit

SpecMonRun == InitMonRun /\ [][MonRunNext]_vars

InitList == ClientInit /\ keepAlive = FALSE /\ ListInit /\ MonIdle

NextList == ListNext

SpecList == InitList /\ [][NextList]_vars

InitTok == ClientInit /\ keepAlive = FALSE /\ TokInit /\ MonIdle

NextTok == TokNext

SpecTok == InitTok /\ [][NextTok]_vars

InitVar == ClientInit /\ keepAlive = FALSE /\ VarInit /\ MonIdle

NextVar == VarNext

SpecVar == InitVar /\ [][NextVar]_vars

\* ------------------------------------------------------------- the claims

\* C1: Close does not return before the goroutine of run has exited, and
\* once a Close call has returned neither ConnectedFn nor DisconnectedFn is
\* invoked again.
C1_CloseIsSynchronous ==
    [][ /\ closeReturned' => runPc' = "Exited"
        /\ closeReturned => /\ nConnected' = nConnected
                            /\ nDisconnected' = nDisconnected ]_vars

\* C2: every Get call returns a value or an error: no call panics, and no
\* call is left at its send on requestChan once run has exited, after which
\* no goroutine ever receives from requestChan.
C2_EveryGetReturns ==
    \A g \in Getters :
        /\ getPc[g] # "panic"
        /\ runPc = "Exited" => getPc[g] # "send"

\* C3 as stated: at most one command is executing, and every request that
\* has been taken from a Get caller has been executed on the connection (N
\* requests, N executions).
C3_OneExecutionPerRequest ==
    /\ executing <= 1
    /\ nExecReq = nTaken

\* C3 as amended: at most one command is executing, a command starts only
\* when none is executing, and every request the serving loop has received
\* has been executed exactly once; a request received in Backoff is not
\* executed.
C3_OneExecutionPerServedRequest ==
    /\ executing <= 1
    /\ executing = 1 <=> runPc \in {"CmdIO", "CmdDefer"}
    /\ nExecReq = nServed
    /\ nServed <= nTaken

\* C3, its case: two callers' requests have been executed one after the
\* other, and a keep-alive is executing now.
C3_Witness ==
    /\ nExecReq = 2
    /\ executing = 1
    /\ cmd.kind = "keepalive"

\* C4: a response that run produces for a request is received by the caller
\* of that request only: no Get caller receives the response to another
\* caller's request, and Close receives nothing but the closing of the
\* channel.
C4_ResponseGoesToItsCaller ==
    /\ \A g \in Getters : gotFrom[g] \in {"none", "closed", g}
    /\ \A k \in Closers : closeGot[k] \in {"none", "closed"}

\* C5: a Get whose request run received in Backoff returns errNotConnected.
C5_BackoffGetNotConnected ==
    \A g \in Getters :
        (takenIn[g] = "backoff" /\ getPc[g] # "recv")
            => result[g] = "NotConnected"

\* C6: when the shutdown closed the socket under the I/O of a caller's
\* request, the response to that request is handed to that caller, whose Get
\* returns context.Canceled (so a Close call cannot have taken it and
\* returned first).
C6_CanceledReachesCaller ==
    [][ (runPc = "SendResp" /\ cmd.ioCut /\ runPc' # "SendResp")
            => /\ result'[resp.for] = "Canceled"
               /\ getPc'[resp.for] = "idle" ]_vars

\* C7: a Close call made after a Close call has returned does not block:
\* responseChan is already closed when it is made (and so no callback can
\* follow it).
C7_SecondCloseImmediate ==
    [][ \A k \in Closers :
            (closeReturned /\ closePc[k] = "idle" /\ closePc'[k] = "wait")
                => runPc = "Exited" ]_vars

\* C8: after the response to a request that the server answered with ERR
\* has been handed over, the serving loop selects again on the same
\* connection, and no DisconnectedFn is invoked for it.
C8_ServerErrNotFatal ==
    [][ (runPc = "SendResp" /\ resp.err = "ServerErr" /\ runPc' # "SendResp")
            => /\ runPc' = "Select"
               /\ conn' = conn
               /\ nDisconnected' = nDisconnected ]_vars

\* C9: the response that carries a protocol or transport error is handed to
\* the caller of the request, the loop then returns, and no command is
\* executed on a connection on which a command has failed so.
C9_FatalErrorToCaller ==
    [][ /\ (runPc = "SendResp" /\ resp.err \in {"ProtoErr", "IOErr"}
              /\ runPc' # "SendResp")
            => /\ result'[resp.for] = resp.err
               /\ runPc' = "LoopRet"
        /\ executing' > 0 => cmd'.conn \notin failedConns' ]_vars

\* The tokens of the argument string and of the reply line of a runGet call
\* that wrote its command and read one line.
GetArgToks == scanLine(pArgs).toks
GetReplyToks == scanLine(pIn[1]).toks

\* The reply line echoes the argument tokens, ignoring case.
GetEchoed ==
    /\ Len(GetReplyToks) >= Len(GetArgToks)
    /\ \A i \in 1..Len(GetArgToks) : EqualFold(GetReplyToks[i], GetArgToks[i])

\* runGet has been called, its command was written and one line was read.
GetAnswered == pOp = "runGet" /\ pWriteOk /\ Len(pIn) = 1

\* The reply line is a server error: ERR, ignoring case, and one more token.
GetReplyIsErr ==
    /\ Len(GetReplyToks) >= 2
    /\ ToLower(GetReplyToks[1]) = << "e", "r", "r" >>

\* C10 as stated: for argument tokens p1..pn (n >= 1) and a reply line that
\* echoes them, runGet returns the token after the prefix and no error when
\* one follows, and the MissingValue error when none does.
C10_RunGetValue ==
    (GetAnswered /\ GetEchoed /\ Len(GetArgToks) >= 1)
        => IF Len(GetReplyToks) > Len(GetArgToks)
           THEN pOut.err = "nil" /\ pOut.v = GetReplyToks[Len(GetArgToks) + 1]
           ELSE pOut.err = "MissingValue"

\* C10 as amended: the same for a reply line that is not a server error
\* (ERR, ignoring case, and at least one more token).
C10_RunGetValueAmended ==
    (GetAnswered /\ GetEchoed /\ Len(GetArgToks) >= 1 /\ ~GetReplyIsErr)
        => IF Len(GetReplyToks) > Len(GetArgToks)
           THEN pOut.err = "nil" /\ pOut.v = GetReplyToks[Len(GetArgToks) + 1]
           ELSE pOut.err = "MissingValue"

\* C10, its case: the reply echoes the argument in another case and the
\* quoted value after it is returned without its quotes.
C10_Witness ==
    /\ GetAnswered
    /\ pArgs = << "a" >>
    /\ pIn = << << "A", " ", Q, "b", " ", "c", Q >> >>
    /\ pOut = [v |-> << "b", " ", "c" >>, err |-> "nil", reason |-> << >>]

\* A command has been called with an argument string that holds a token, its
\* line was written and a first reply line was read.
CmdAnswered ==
    /\ pOp # "none"
    /\ pWriteOk
    /\ Len(pIn) >= 1
    /\ Len(GetArgToks) >= 1

\* The first reply line starts with ERR, ignoring case.
ReplyStartsWithErr ==
    /\ Len(GetReplyToks) >= 1
    /\ ToLower(GetReplyToks[1]) = << "e", "r", "r" >>

C12_ListRoundTrip ==
    \A prefix \in ListPrefixes, rows \in RowLists :
        (/\ pOp = "runList"
         /\ pWriteOk
         /\ pArgs = JoinSp(prefix)
         /\ pIn = EncodeList(prefix, rows))
            => pOut.err = "nil" /\ pOut.v = rows

\* The number of rows of the reply pIn if it is of the given kind, and the
\* rows its lines encode under prefix (any row, for a line that encodes
\* none).
RowCount(kind) ==
    Len(pIn) - (CASE kind \in { "eof", "nobegin" } -> 1
                  [] kind = "row" -> 3
                  [] OTHER -> 2)

RowsOf(prefix, kind) ==
    [i \in 1..RowCount(kind) |->
        LET line == pIn[i + (IF kind = "nobegin" THEN 0 ELSE 1)]
        IN  IF \E r \in Rows : EncodeRow(prefix, r) = line
            THEN CHOOSE r \in Rows : EncodeRow(prefix, r) = line
            ELSE << >>]

\* runList has been called, its command was written, and the reply is of the
\* given kind for the prefix of the request.
ListAnswered(kind) ==
    /\ pOp = "runList"
    /\ pWriteOk
    /\ \E prefix \in ListPrefixes :
            /\ pArgs = JoinSp(prefix)
            /\ RowCount(kind) \in 0..MaxRows
            /\ pIn = ListReply(prefix, RowsOf(prefix, kind), kind)

\* The errors of a malformed reply.
MalformedErrs == { "Expected", "UnexpectedEOF", "MissingValue",
                   "MissingEndQuote" }

\* C13 as stated: when the first line is not BEGIN LIST <prefix>, a row lacks
\* the prefix, END LIST carries another prefix or the input ends before END
\* LIST, runList returns a malformed-response error and no list.
C13_MalformedListIsError ==
    \A kind \in ReplyKinds \ { "ok" } :
        ListAnswered(kind) => pOut.err \in MalformedErrs /\ pOut.v = << >>

\* C13 as amended: the same, except that a first line ERR <reason> makes
\* runList return the server error (and no list).
C13_MalformedListIsErrorOrServerErr ==
    /\ \A kind \in ReplyKinds \ { "ok", "err" } :
            ListAnswered(kind) => pOut.err \in MalformedErrs /\ pOut.v = << >>
    /\ ListAnswered("err") => pOut.err = "ServerErr" /\ pOut.v = << >>

\* C13, its case: after a well-formed row, a row with another prefix made
\* runList return the error and none of the rows.
C13_Witness ==
    /\ ListAnswered("row")
    /\ Len(pIn) = 4
    /\ pOut.err = "Expected"
    /\ pOut.v = << >>

\* The tokens of a line as C14 and C15 describe them, read from index i on:
\* white space separates; a token that starts with a double quote is the
\* bytes up to the next double quote; any other token is a maximal run of
\* bytes that are no white space; an opening quote that is never closed is
\* the MissingEndQuote error after the tokens before it.
RECURSIVE TokensFrom(_, _, _)
TokensFrom(data, i, acc) ==
    LET a == RunEnd(data, i, FALSE)
    IN  IF a = Len(data)
        THEN [toks |-> acc, err |-> "nil"]
        ELSE IF data[a + 1] = Q
        THEN IF QuoteEnd(data, a + 1) = Len(data)
             THEN [toks |-> acc, err |-> "MissingEndQuote"]
             ELSE TokensFrom(data, QuoteEnd(data, a + 1) + 1,
                             Append(acc, SubSeq(data, a + 2,
                                                QuoteEnd(data, a + 1))))
        ELSE TokensFrom(data, RunEnd(data, a, TRUE),
                        Append(acc, SubSeq(data, a + 1, RunEnd(data, a, TRUE))))

LineTokens == TokensFrom(pArgs, 0, << >>)

\* A tokenizer has run over pArgs.
Tokenized == pOp \in { "scan", "scanReader" }

\* C14: for a line whose quotes are all closed, the tokenizer yields, in
\* order and without error, the unquoted tokens as maximal runs of bytes
\* that are no white space and the quoted tokens as the bytes (possibly
\* none) between the quotes.
C14_TokensOfLine ==
    (Tokenized /\ LineTokens.err = "nil")
        => pOut.err = "nil" /\ pOut.v = LineTokens.toks

\* C15: for a line with an opening quote that is never closed, the tokenizer
\* reports the MissingEndQuote error and yields the tokens before the
\* unterminated one and nothing else.
C15_UnterminatedQuote ==
    (Tokenized /\ LineTokens.err = "MissingEndQuote")
        => pOut.err = "MissingEndQuote" /\ pOut.v = LineTokens.toks

\* C16: a line that is empty or all white space yields no token and no error,
\* and on a line without quotes no token holds a white space byte.
C16_WhitespaceIsNoToken ==
    Tokenized =>
        /\ (\A i \in 1..Len(pArgs) : isSpaceReaderNoTab(pArgs[i])
                                        \/ pArgs[i] = "\t")
                => pOut.v = << >> /\ pOut.err = "nil"
        /\ (\A i \in 1..Len(pArgs) : pArgs[i] # Q)
                => \A k \in 1..Len(pOut.v) :
                        /\ pOut.v[k] # << >>
                        /\ \A j \in 1..Len(pOut.v[k]) :
                                pOut.v[k][j] \notin { " ", "\t", "\r", "\n" }

\* C16, its case: the input " test\ttest\n" of TestSplit has been tokenized
\* with split of reader.go into test, test.
C16_Witness ==
    /\ pOp = "scanReader"
    /\ pArgs = << " ", "t", "e", "s", "t", "\t", "t", "e", "s", "t", "\n" >>
    /\ pOut.v = << << "t", "e", "s", "t" >>, << "t", "e", "s", "t" >> >>
    /\ pOut.err = "nil"

\* C17: on the list of rows with distinct keys, listReader.parse succeeds
\* with the map that holds exactly the key and the value of every row (the
\* empty map for no row); on the empty input it returns an error.
C17_ListReaderVariables ==
    /\ \A rows \in VarRowLists :
        (/\ pOp = "listReader"
         /\ pArgs = VarListText(rows, FALSE)
         /\ \A i, j \in 1..Len(rows) : rows[i].key = rows[j].key => i = j)
            => /\ pOut.err = "nil"
               /\ pOut.v = { << rows[i].key, rows[i].val >> :
                                i \in 1..Len(rows) }
    /\ (pOp = "listReader" /\ pArgs = << >>) => pOut.err # "nil"

\* C18: ConnectedFn has been invoked once for each successful dial (conn
\* counts them) as soon as lifecycle has passed its call; a command executes
\* only on a connection for which it has been invoked; and a dial that fails
\* leads to the select of the backoff with no callback invoked.
C18_ConnectedOncePerDial ==
    [][ /\ nConnected' = conn' - (IF runPc' = "ConnectedCb" THEN 1 ELSE 0)
        /\ executing' > 0 => (cmd'.conn = conn' /\ nConnected' = conn')
        /\ (runPc \in { "Dial", "Dialing" } /\ conn' = conn)
                => /\ runPc' \in { "Dial", "Dialing", "Backoff" }
                   /\ nConnected' = nConnected
                   /\ nDisconnected' = nDisconnected ]_vars

\* C18, its case: after two successful dials ConnectedFn has been invoked
\* twice and a command executes on the second connection.
C18_Witness ==
    /\ conn = 2
    /\ nConnected = 2
    /\ executing = 1
    /\ cmd.conn = 2

\* C19: when loop has returned, lifecycle invokes DisconnectedFn exactly once
\* and run goes to its backoff, unless the loop ended by the shutdown, when
\* no DisconnectedFn is invoked and run ends; DisconnectedFn is invoked at no
\* other step; and the loop returns context.Canceled exactly when it ended by
\* the shutdown (the ctx.Done case of its select, or a command whose watcher
\* saw the shutdown).
C19_DisconnectedOncePerLoss ==
    [][ /\ (runPc = "LoopRet" /\ runPc' # "LoopRet")
                => IF loopErr = "Canceled"
                   THEN nDisconnected' = nDisconnected /\ runPc' = "Exited"
                   ELSE /\ nDisconnected' = nDisconnected + 1
                        /\ runPc' = "Backoff"
        /\ nDisconnected' # nDisconnected => runPc = "LoopRet"
        /\ (runPc # "LoopRet" /\ runPc' = "LoopRet")
                => /\ (loopErr' = "Canceled")
                        <=> (runPc = "Select" \/ canceled)
                   /\ loopErr' = "Canceled" => ctxDone ]_vars

\* C19, its case: the first connection was lost (one DisconnectedFn), the
\* loop on the second one ended by the shutdown, and run has ended.
C19_Witness ==
    /\ conn = 2
    /\ nDisconnected = 1
    /\ loopErr = "Canceled"
    /\ runPc = "Exited"

\* C20: lifecycle is called again (a new dial) only from the select of the
\* backoff by its timer: not after a request received in the backoff has
\* been answered.
C20_RedialOnlyAfterTimer ==
    [][ (runPc' = "Dial" /\ runPc # "Dial") => runPc = "Backoff" ]_vars

\* C21: run returns only when the shutdown has been requested (c.cancel()
\* was called): a failed dial and a loop ended by a socket, protocol or
\* server error lead to the select of the backoff, never to the return of
\* run; and once run has returned there is no dial, no command and no
\* invocation of ConnectedFn or DisconnectedFn any more.
C21_ExitOnlyOnShutdown ==
    [][ /\ runPc' = "Exited" => ctxDone'
        /\ (runPc = "Dialing" /\ runPc' # "Dialing")
                => runPc' \in { "ConnectedCb", "Backoff" }
        /\ (runPc = "LoopRet" /\ loopErr # "Canceled" /\ runPc' # "LoopRet")
                => runPc' = "Backoff"
        /\ runPc = "Exited"
                => /\ runPc' = "Exited"
                   /\ UNCHANGED << conn, openSocks, cmd, executing, watcher,
                                   nConnected, nDisconnected, nExecReq >> ]_vars

\* C21, its case: run has returned after the shutdown, having been through
\* a failed command (a lost connection, one DisconnectedFn) and a second
\* dial, and a caller still acts after the return.
C21_Witness ==
    /\ runPc = "Exited"
    /\ ctxDone
    /\ conn = 2
    /\ failedConns # {}
    /\ nDisconnected = 1
    /\ \E g \in Getters : getPc[g] = "send"

\* C22: under the scheduling of Fairness, once the shutdown has been
\* requested run returns at last, and every Close call that is waiting on
\* responseChan returns at last, wherever run was when Close was called.
C22_CloseTerminates ==
    /\ ctxDone ~> (runPc = "Exited")
    /\ \A k \in Closers : (closePc[k] = "wait") ~> (closePc[k] = "idle")

\* C22, its case: Close was called while a command was blocked in its
\* socket I/O (the watcher closed the socket under it); run has returned
\* and Close has returned.
C22_Witness ==
    /\ cmd.ioCut
    /\ runPc = "Exited"
    /\ closeReturned
    /\ \A k \in Closers : closePc[k] = "idle"

\* C23: once the shutdown has been requested, loop starts no command: no
\* runCommand is entered, for a caller's request or for a keep-alive tick.
C23_NoCommandAfterShutdown ==
    [][ ctxDone => /\ executing' <= executing
                   /\ nExecReq' = nExecReq
                   /\ runPc' = "CmdIO" => runPc = "CmdIO" ]_vars

\* C24: the keep-alive case of the select consumes the tick and starts one
\* command on the connection of the loop; when that command returns nothing
\* is sent on responseChan and no caller's state changes (what is sent on
\* responseChan in the loop is always the result of a caller's request); an
\* error of the keep-alive ends the loop with that error, after which
\* lifecycle invokes DisconnectedFn and run goes to its backoff as for any
\* other error that is not context.Canceled.
C24_KeepAliveNotReported ==
    [][ /\ (runPc = "Select" /\ runPc' = "CmdIO" /\ cmd'.kind = "keepalive")
                => /\ tickPending /\ ~tickPending'
                   /\ executing' = executing + 1
                   /\ cmd'.conn = conn
                   /\ nExecReq' = nExecReq
        /\ (runPc = "CmdDefer" /\ runPc' # "CmdDefer" /\ cmd.kind = "keepalive")
                => /\ resp' = NoResp
                   /\ UNCHANGED << getVars, closeVars >>
                   /\ IF CmdErr # "nil"
                      THEN runPc' = "LoopRet" /\ loopErr' = CmdErr
                      ELSE runPc' = "Select"
        /\ runPc' = "SendResp"
                => cmd'.kind = "get" /\ resp'.for = cmd'.for
        /\ (runPc = "LoopRet" /\ runPc' # "LoopRet" /\ cmd.kind = "keepalive"
                               /\ loopErr # "Canceled")
                => /\ nDisconnected' = nDisconnected + 1
                   /\ runPc' = "Backoff" ]_vars

\* C24, its case: a keep-alive command failed on the first connection, the
\* loop ended, DisconnectedFn was invoked and run is in its backoff, while a
\* caller that waits in Get has received nothing.
C24_Witness ==
    /\ cmd.kind = "keepalive"
    /\ cmd.conn = 1
    /\ loopErr = "IOErr"
    /\ runPc = "Backoff"
    /\ nDisconnected = 1
    /\ \E g \in Getters : getPc[g] = "send" /\ gotFrom[g] = "none"

\* C25: when the loop selects again after a request that succeeded, the
\* ticker has been reset and no tick from before the reset is left in its
\* channel, so that the next keep-alive waits for a tick that arrives after
\* the exchange; and without a keep-alive interval there is never a tick nor
\* a keep-alive command.
C25_KeepAliveCountdownRestarts ==
    [][ /\ (keepAlive /\ runPc = "SendResp" /\ runPc' = "Select")
                => ~tickPending'
        /\ ~keepAlive => (~tickPending' /\ cmd'.kind # "keepalive") ]_vars

\* The reply line of the call has OK, in any case of letters, as the first
\* token parseLine yields.
ReplyIsOk ==
    /\ pIn # << >>
    /\ parseLine(pIn[1]).err = "nil"
    /\ EqualFold(parseLine(pIn[1]).toks[1], << "O", "K" >>)

\* C26: runCmd returns nil exactly when the command line (the name and a
\* newline) was written and the reply line's first token is OK ignoring
\* case; so for every command name, when the write succeeds and the server
\* answers OK, runCmd returns nil.
C26_RunCmdOk ==
    pOp = "runCmd"
        => /\ (pOut.err = "nil")
                <=> (pWritten = writeCmd(pArgs, << >>) /\ ReplyIsOk)
           /\ (pWriteOk /\ ReplyIsOk) => pOut.err = "nil"

\* v has at least as many tokens as prefixes and equals it, ignoring case,
\* at every position of prefixes.
HasPrefixFold(v, prefixes) ==
    /\ Len(v) >= Len(prefixes)
    /\ \A i \in 1..Len(prefixes) : EqualFold(v[i], prefixes[i])

\* C27: trimPrefix(v, prefixes) returns no error and the tokens of v after
\* the first Len(prefixes) exactly when v has that many tokens and they equal
\* prefixes ignoring case; otherwise it returns the error that names
\* prefixes as expected, and no tokens.
C27_TrimPrefix ==
    pOp = "trimPrefix"
        => IF HasPrefixFold(TrimV, TrimPrefixes)
           THEN /\ pOut.err = "nil"
                /\ Len(pOut.v) = Len(TrimV) - Len(TrimPrefixes)
                /\ TrimV = SubSeq(TrimV, 1, Len(TrimPrefixes)) \o pOut.v
           ELSE /\ pOut.err = "Expected"
                /\ pOut.reason = TrimPrefixes
                /\ pOut.v = << >>

\* C27, its case: two prefixes were removed, one of which differs from the
\* token of v in the case of its letters, and one token is left.
C27_Witness ==
    /\ pOp = "trimPrefix"
    /\ pOut.err = "nil"
    /\ Len(TrimPrefixes) = 2
    /\ Len(pOut.v) = 1
    /\ \E i \in 1..2 : TrimV[i] # TrimPrefixes[i]

\* C28: when the command line has been formed and the Write fails, or the
\* scanner stops before a reply line with a read error or at the end of the
\* stream, send returns an I/O error, and so does runGet: never nil, never
\* a prefix or missing-value error.
C28_NoReplyIsIOFailure ==
    (/\ pOp = "runGet"
     /\ parseLine(pArgs).err = "nil"
     /\ (~pWriteOk \/ pIn = << >>))
        => /\ send(<< "G", "E", "T" >>, pArgs, pWriteOk, pIn, pReadErr).err
                = "IOErr"
           /\ pOut.err = "IOErr"

\* Whether the i-th polled status evaluates to on battery; before the first
\* one the monitor is not on battery.
OnBatteryAt(i) ==
    IF i = 0 THEN FALSE ELSE runEvaluateStatusFn(mPolled[i], mCustomEval)

\* C29: after every sequence of polled status values, PowerLostFn (when
\* there is one) has been invoked once for each value that evaluates to on
\* battery after one that does not, PowerRestoredFn (when there is one) once
\* for each value that evaluates to not on battery after one that does, and
\* neither for a value that evaluates as the one before it; m.onBattery is
\* the evaluation of the last value.
C29_PowerCallbacksOnChange ==
    /\ mLost = IF mHasLostFn
               THEN Cardinality({ i \in 1..Len(mPolled) :
                                    ~OnBatteryAt(i - 1) /\ OnBatteryAt(i) })
               ELSE 0
    /\ mRestored = IF mHasRestoredFn
                   THEN Cardinality({ i \in 1..Len(mPolled) :
                                        OnBatteryAt(i - 1) /\ ~OnBatteryAt(i) })
                   ELSE 0
    /\ mOnBattery = OnBatteryAt(Len(mPolled))

\* C29, its case: four values were polled, the first two equal and on
\* battery, the last two not: one PowerLostFn and one PowerRestoredFn.
C29_Witness ==
    /\ Len(mPolled) = 4
    /\ mPolled[1] = mPolled[2]
    /\ OnBatteryAt(2) /\ ~OnBatteryAt(3) /\ ~OnBatteryAt(4)
    /\ mLost = 1
    /\ mRestored = 1

\* C30: the invocations of ConnectedFn and DisconnectedFn alternate,
\* ConnectedFn first: DisconnectedFn has been invoked as often as
\* ConnectedFn or once less, ConnectedFn is invoked only when both have been
\* invoked equally often, and DisconnectedFn only when ConnectedFn is one
\* ahead.
C30_CallbacksAlternate ==
    [][ /\ nDisconnected' \in { nConnected', nConnected' - 1 }
        /\ nConnected' # nConnected
                => /\ nConnected' = nConnected + 1
                   /\ nDisconnected' = nDisconnected
                   /\ nDisconnected = nConnected
        /\ nDisconnected' # nDisconnected
                => /\ nDisconnected' = nDisconnected + 1
                   /\ nConnected' = nConnected
                   /\ nDisconnected = nConnected - 1 ]_vars

\* C30, its case: two connections were made and both were lost.
C30_Witness ==
    /\ nConnected = 2
    /\ nDisconnected = 2
    /\ runPc = "Backoff"

\* C31: every response a Get call receives holds a string in v, so that the
\* type assertion of Get does not panic: the responses run sends on
\* responseChan, in the loop and in the backoff, and the zero response of the
\* closed channel.
C31_GetValueIsString ==
    /\ runPc \in { "SendResp", "BackoffResp" } => ~resp.vnil
    /\ \A g \in Getters : result[g] # "panic"

\* C32: when lifecycle returns after the loop, the socket of its connection
\* has been closed, and while run is outside the loop (in its backoff,
\* dialing, or ended) no socket is open.
C32_SocketClosedAfterLoop ==
    [][ /\ (runPc = "LoopRet" /\ runPc' # "LoopRet") => conn \notin openSocks'
        /\ runPc' \in { "Backoff", "BackoffResp", "Dial", "Dialing", "Exited" }
                => openSocks' = {} ]_vars

\* The error runCommand returns to loop in the step in which it returns.
ReturnedErr ==
    IF cmd.kind = "keepalive"
    THEN (IF runPc' = "LoopRet" THEN loopErr' ELSE "nil")
    ELSE resp'.err

\* C33: runCommand starts one watcher when it is entered, none being there;
\* it returns only when that watcher has ended; a watcher exists only while
\* the one command executes; the socket a watcher closes is that of its own
\* command, which is the current connection; and runCommand returns
\* context.Canceled exactly when its watcher saw the shutdown, the socket then
\* being closed.
C33_OneWatcherPerCommand ==
    [][ /\ (runPc # "CmdIO" /\ runPc' = "CmdIO")
                => watcher = "none" /\ watcher' = "running"
        /\ (runPc = "CmdDefer" /\ runPc' # "CmdDefer")
                => /\ watcher = "done" /\ watcher' = "none"
                   /\ (ReturnedErr = "Canceled") <=> canceled
                   /\ canceled => (ctxDone /\ cmd.conn \notin openSocks)
        /\ watcher' # "none"
                => executing' = 1 /\ runPc' \in { "CmdIO", "CmdDefer" }
        /\ (watcher = "running" /\ watcher' = "done")
                => /\ openSocks \ openSocks' \subseteq { cmd.conn }
                   /\ cmd.conn = conn
                   /\ canceled' => cmd.conn \notin openSocks' ]_vars

\* C33, its case: on the second connection the watcher of a caller's
\* command saw the shutdown and closed the socket, and runCommand has
\* returned context.Canceled, the watcher being gone.
C33_Witness ==
    /\ conn = 2
    /\ runPc = "SendResp"
    /\ resp.err = "Canceled"
    /\ canceled
    /\ watcher = "none"
    /\ 2 \notin openSocks

\* C34: in no reachable state is the goroutine of the client blocked in
\* m.connected or m.disconnected, sending on m.connChan, while the goroutine
\* of Monitor.run is blocked inside client.Get (in its send on requestChan or
\* its receive on responseChan).
C34_NoMonitorDeadlock ==
    ~ (/\ runPc = "ConnectedCb" \/ (runPc = "LoopRet" /\ loopErr # "Canceled")
       /\ ~connClosed
       /\ monPc = "Get"
       /\ getPc[MonGetter] \in { "send", "recv" })

====
